---- MODULE Spec2Model ----
(***************************************************************************)
(* RiyadhNow web client (src/app.js, the production copy that starts at    *)
(* line 1700): the places load and its validation, the filter pipeline,    *)
(* and the similarity session driven by window.findSimilar.                *)
(*                                                                         *)
(* Conventions.                                                            *)
(*   - Text that is searched character by character (name, tags, category, *)
(*     district, the query) is a sequence of one-character strings.        *)
(*   - Identifiers, sentiment and price labels are compared only for       *)
(*     equality and are TLA+ strings.                                      *)
(*   - A JavaScript value whose type matters to Number() is a record       *)
(*     [t, n]: t is the JavaScript type, n the numeric value.              *)
(*   - Coordinates are integers in units of 0.0001 degree (90.0 = 900000). *)
(*   - rating is in tenths, bayes2_score in hundredths.                    *)
(***************************************************************************)
EXTENDS Integers, Sequences, FiniteSets, TLC

VARIABLES
    DATA,          \* let DATA: the loaded dataset, a sequence of place records
    INSIGHTS,      \* let INSIGHTS: the ordered insight rules
    state,         \* const state: the FilterState object
    SELECTED_ID,   \* let SELECTED_ID
    calls,         \* the findSimilar invocations whose fetch has not settled
    ev,            \* the handler that ran last: its name, input and effects in order
    shown,         \* what the last render() displayed
    boot           \* init(): where the page start-up stands and what it was given

vars == <<DATA, INSIGHTS, state, SELECTED_ID, calls, ev, shown, boot>>

-----------------------------------------------------------------------------
(* JavaScript values *)

UndefS == "<undefined>"            \* undefined, where a string is expected
Undefined == <<"<undefined>">>     \* undefined, where a text is expected
NULLISH == -99999                  \* null or undefined, where a number is expected

JsUndef == [t |-> "undefined", n |-> 0]
JsNull == [t |-> "null", n |-> 0]
JsNum(k) == [t |-> "number", n |-> k]
JsNaNStr == [t |-> "string_nan", n |-> 0]     \* a string such as "abc"
JsEmptyStr == [t |-> "string_empty", n |-> 0] \* the string ""

\* a ?? b on tagged values
Coalesce(a, b) == IF a.t \in {"undefined", "null"} THEN b ELSE a

\* Number(v): [nan, n]
ToNumber(v) ==
    CASE v.t = "undefined" -> [nan |-> TRUE, n |-> 0]
      [] v.t = "null" -> [nan |-> FALSE, n |-> 0]
      [] v.t = "number" -> [nan |-> FALSE, n |-> v.n]
      [] v.t = "string_empty" -> [nan |-> FALSE, n |-> 0]
      [] OTHER -> [nan |-> TRUE, n |-> 0]

\* Number.isFinite on the result of Number(): the model has no infinities
IsFinite(x) == ~x.nan

\* truthiness of a string-or-undefined identifier
Truthy(s) == s # UndefS /\ s # ""

\* a || b on identifiers and labels
OrElse(a, b) == IF Truthy(a) THEN a ELSE b

\* a || b on texts
TruthyT(s) == s # Undefined /\ s # <<>>
OrElseT(a, b) == IF TruthyT(a) THEN a ELSE b

\* v ?? d on numbers
NumOr(v, d) == IF v = NULLISH THEN d ELSE v

\* `${v}` for a text
TemplateStr(v) ==
    IF v = Undefined THEN <<"u", "n", "d", "e", "f", "i", "n", "e", "d">> ELSE v

RECURSIVE SeqFilter(_, _)
\* Array.prototype.filter with the predicate given as the set of kept elements' indexes
SeqFilter(s, keep) ==
    IF s = <<>> THEN <<>>
    ELSE LET n == Len(s)
             init == SeqFilter(SubSeq(s, 1, n - 1), keep)
         IN IF n \in keep THEN Append(init, s[n]) ELSE init

Range(s) == {s[i] : i \in 1..Len(s)}

-----------------------------------------------------------------------------
(* Labels *)

AR_ALL == "alkull"        \* the Arabic label "all" of SENTIMENTS[0] and PRICES[0]
AR_POSITIVE == "ijabi"    \* SENTIMENTS[1]
AR_NEUTRAL == "muhayid"   \* SENTIMENTS[2]
AR_NEGATIVE == "salbi"    \* SENTIMENTS[3]
SENTIMENTS == <<AR_ALL, AR_POSITIVE, AR_NEUTRAL, AR_NEGATIVE>>
PRICES == <<AR_ALL, "$", "$$", "$$$">>

T_all == <<"a", "l", "l">>
T_other == <<"o", "t", "h", "e", "r">>

-----------------------------------------------------------------------------
(* Raw records of the places and similarity responses *)

NoArray == << <<"<not an array>">> >>   \* a tags field that is absent or no array

\* A raw record with every field absent.
RawBlank ==
    [obj |-> TRUE,                       \* FALSE: null or a primitive
     place_id |-> UndefS, id |-> UndefS, gid |-> UndefS,
     lat |-> JsUndef, latitude |-> JsUndef, lng |-> JsUndef, longitude |-> JsUndef,
     name |-> Undefined,
     district |-> Undefined, district_ar |-> Undefined,
     category |-> Undefined, primary_type |-> Undefined,
     primary_type_display_name |-> Undefined,
     sentiment_label_ar |-> UndefS, sentiment |-> UndefS,
     price_level |-> UndefS, price |-> UndefS, price_bucket_ar |-> UndefS,
     rating |-> NULLISH,
     rating_count |-> NULLISH, user_ratings_total |-> NULLISH, reviews |-> NULLISH,
     bayes2_score |-> NULLISH, trust |-> NULLISH,
     tags |-> NoArray, tags_ar |-> NoArray, top_tags |-> NoArray]

IsArray(a) == a # NoArray

\* validatePlaceData(p).reason, "" when the record is valid
validatePlaceReason(p) ==
    IF ~p.obj THEN "not_an_object"
    ELSE IF ~Truthy(p.place_id) /\ ~Truthy(p.id) /\ ~Truthy(p.gid) THEN "missing_id"
    ELSE LET lat == ToNumber(Coalesce(p.lat, p.latitude))
             lng == ToNumber(Coalesce(p.lng, p.longitude))
         IN IF ~IsFinite(lat) \/ ~IsFinite(lng) THEN "invalid_coordinates"
            ELSE IF lat.n < -900000 \/ lat.n > 900000
                    \/ lng.n < -1800000 \/ lng.n > 1800000
                 THEN "coordinates_out_of_range"
                 ELSE ""

validatePlaceData(p) == validatePlaceReason(p) = ""

\* A places payload: kind is "null", "primitive" or "object"; hasResults says whether
\* payload.results is an array.
Payload(kind, hasResults, results) ==
    [kind |-> kind, hasResults |-> hasResults, results |-> results]

\* validateAPIResponse that takes a missing results array for an empty one
validateAPIResponse_emptyOnMissing(payload) ==
    IF payload.kind # "object"
    THEN [valid |-> FALSE, results |-> <<>>, filtered |-> NULLISH,
          error |-> "Invalid response format"]
    ELSE IF ~payload.hasResults \/ Len(payload.results) = 0
    THEN [valid |-> TRUE, results |-> <<>>, filtered |-> NULLISH, error |-> ""]
    ELSE LET rs == payload.results
             ok == {i \in 1..Len(rs) : validatePlaceData(rs[i])}
         IN [valid |-> TRUE, results |-> SeqFilter(rs, ok),
             filtered |-> Len(rs) - Cardinality(ok), error |-> ""]

\* validateAPIResponse(payload): filtered is NULLISH where the returned object has no
\* such field.
validateAPIResponse(payload) ==
    IF payload.kind # "object"
    THEN [valid |-> FALSE, results |-> <<>>, filtered |-> NULLISH,
          error |-> "Invalid response format"]
    ELSE IF ~payload.hasResults
    THEN [valid |-> FALSE, results |-> <<>>, filtered |-> NULLISH,
          error |-> "Missing results array"]
    ELSE IF Len(payload.results) = 0
    THEN [valid |-> TRUE, results |-> <<>>, filtered |-> NULLISH, error |-> ""]
    ELSE LET rs == payload.results
             ok == {i \in 1..Len(rs) : validatePlaceData(rs[i])}
         IN [valid |-> TRUE, results |-> SeqFilter(rs, ok),
             filtered |-> Len(rs) - Cardinality(ok), error |-> ""]

\* The record loadRealPlacesAndBootstrapUI builds from one validated raw record.
placeFromRaw(p) ==
    LET tags == IF IsArray(p.tags) THEN p.tags
                ELSE IF IsArray(p.tags_ar) THEN p.tags_ar
                ELSE IF IsArray(p.top_tags) THEN p.top_tags
                ELSE <<>>
        district == OrElseT(p.district, OrElseT(p.district_ar, T_all))
        category == OrElseT(p.category,
                        OrElseT(p.primary_type,
                            OrElseT(p.primary_type_display_name, T_other)))
        sentiment == OrElse(p.sentiment_label_ar, OrElse(p.sentiment, AR_NEUTRAL))
        price == OrElse(p.price_level, OrElse(p.price, AR_ALL))
        count == NumOr(p.rating_count, NumOr(p.user_ratings_total, NumOr(p.reviews, 0)))
        trust == NumOr(p.bayes2_score, NumOr(p.trust, 0))
    IN [id |-> OrElse(p.place_id, OrElse(p.id, p.gid)),
        place_id |-> OrElse(p.place_id, p.id),
        name |-> OrElseT(p.name, <<>>),
        district |-> district,
        category |-> category,
        sentiment |-> sentiment,
        price |-> price,
        rating |-> NumOr(p.rating, 0),
        reviews |-> count,
        rating_count |-> count,
        trust |-> trust,
        bayes2_score |-> trust,
        sentiment_label_ar |-> sentiment,
        price_level |-> price,
        price_bucket_ar |-> OrElse(p.price_bucket_ar, ""),
        lat |-> ToNumber(Coalesce(p.lat, p.latitude)).n,
        lng |-> ToNumber(Coalesce(p.lng, p.longitude)).n,
        tags |-> tags]

\* DATA = validation.results.map(...)
placesFromRaw(rs) == [i \in 1..Len(rs) |-> placeFromRaw(rs[i])]

-----------------------------------------------------------------------------
(* Similarity results *)

\* The record normalizeSimilarResults builds; the fields it does not set are undefined.
similarFromRaw(x) ==
    [id |-> OrElse(x.place_id, x.id),
     place_id |-> OrElse(x.place_id, x.id),
     name |-> OrElseT(x.name, <<>>),
     district |-> Undefined,
     category |-> Undefined,
     sentiment |-> UndefS,
     price |-> UndefS,
     rating |-> x.rating,
     reviews |-> NULLISH,
     rating_count |-> x.rating_count,
     trust |-> NULLISH,
     bayes2_score |-> x.bayes2_score,
     sentiment_label_ar |-> OrElse(x.sentiment_label_ar, ""),
     price_level |-> UndefS,
     price_bucket_ar |-> OrElse(x.price_bucket_ar, ""),
     lat |-> ToNumber(x.lat).n,
     lng |-> ToNumber(x.lng).n,
     tags |-> IF IsArray(x.tags) THEN x.tags ELSE <<>>]

\* normalizeSimilarResults without the comparison with the anchor's id
normalizeSimilarResults_keepsAnchor(arr, anchorId) ==
    LET keep == {i \in 1..Len(arr) :
                    /\ arr[i].obj
                    /\ Truthy(OrElse(arr[i].place_id, arr[i].id))
                    /\ IsFinite(ToNumber(arr[i].lat))
                    /\ IsFinite(ToNumber(arr[i].lng))}
        kept == SeqFilter(arr, keep)
    IN [i \in 1..Len(kept) |-> similarFromRaw(kept[i])]

\* normalizeSimilarResults(arr, anchorId)
normalizeSimilarResults(arr, anchorId) ==
    LET keep == {i \in 1..Len(arr) :
                    /\ arr[i].obj
                    /\ Truthy(OrElse(arr[i].place_id, arr[i].id))
                    /\ OrElse(arr[i].place_id, arr[i].id) # anchorId
                    /\ IsFinite(ToNumber(arr[i].lat))
                    /\ IsFinite(ToNumber(arr[i].lng))}
        kept == SeqFilter(arr, keep)
    IN [i \in 1..Len(kept) |-> similarFromRaw(kept[i])]

-----------------------------------------------------------------------------
(* Text *)

\* String.prototype.toLowerCase on the letters the model's texts use
LowerChar(c) ==
    CASE c = "A" -> "a"
      [] c = "B" -> "b"
      [] c = "C" -> "c"
      [] c = "D" -> "d"
      [] OTHER -> c

toLowerCase(t) == [i \in 1..Len(t) |-> LowerChar(t[i])]

\* String.prototype.includes
includes(hay, q) ==
    \E i \in 1..(Len(hay) - Len(q) + 1) : SubSeq(hay, i, i + Len(q) - 1) = q

RECURSIVE join(_, _)
\* Array.prototype.join
join(ts, sep) ==
    IF Len(ts) = 0 THEN <<>>
    ELSE IF Len(ts) = 1 THEN TemplateStr(ts[1])
    ELSE join(SubSeq(ts, 1, Len(ts) - 1), sep) \o sep \o TemplateStr(ts[Len(ts)])

\* `${p.name} ${(p.tags || []).join(" ")} ${p.category} ${p.district}`
haystack(p) ==
    TemplateStr(p.name) \o <<" ">> \o join(p.tags, <<" ">>) \o <<" ">>
        \o TemplateStr(p.category) \o <<" ">> \o TemplateStr(p.district)

-----------------------------------------------------------------------------
(* Insight rules: the closures compilePredicate returns, as data *)

PredAlways ==
    [shape |-> "always", minRating |-> 0, minBayes |-> 0, minReviews |-> 0,
     maxReviews |-> 0, excludeSentiment |-> "", searchTerm |-> <<>>]
PredDiscover(minRating, minReviews, maxReviews, excludeSentiment) ==
    [PredAlways EXCEPT !.shape = "discover", !.minRating = minRating,
        !.minReviews = minReviews, !.maxReviews = maxReviews,
        !.excludeSentiment = excludeSentiment]
PredMustGo(minBayes, minReviews, excludeSentiment) ==
    [PredAlways EXCEPT !.shape = "must_go", !.minBayes = minBayes,
        !.minReviews = minReviews, !.excludeSentiment = excludeSentiment]
PredTopRated(minRating, minReviews) ==
    [PredAlways EXCEPT !.shape = "top_rated", !.minRating = minRating,
        !.minReviews = minReviews]
PredRaqi(searchTerm) ==
    [PredAlways EXCEPT !.shape = "raqi", !.searchTerm = searchTerm]

\* Calling a compiled predicate on a record.  A record's rating is in tenths and its
\* trust score in hundredths; the thresholds of a closure are in hundredths.
applyPredicate(f, p) ==
    LET r == 10 * NumOr(p.rating, 0)
        v == NumOr(p.rating_count, 0)
        s == OrElse(p.sentiment_label_ar, "")
    IN CASE f.shape = "discover" ->
              /\ r >= f.minRating
              /\ v >= f.minReviews
              /\ v <= f.maxReviews
              /\ s # f.excludeSentiment
         [] f.shape = "must_go" ->
              /\ NumOr(p.bayes2_score, 50) >= f.minBayes
              /\ v >= f.minReviews
              /\ s # f.excludeSentiment
         [] f.shape = "top_rated" -> r >= f.minRating /\ v >= f.minReviews
         [] f.shape = "raqi" -> includes(toLowerCase(haystack(p)), f.searchTerm)
         [] OTHER -> TRUE

\* The closures compileHeat returns, as data; HeatNull is the heatFn of a rule that
\* has none.
HeatNull == [shape |-> "null", field |-> "", default |-> 0]
HeatZero == [shape |-> "zero", field |-> "", default |-> 0]
HeatField(fld, default) == [shape |-> "field", field |-> fld, default |-> default]

SortSpec(kind, fld) == [kind |-> kind, field |-> fld]
SortDefault == SortSpec("desc", "bayes2_score")   \* "desc:bayes2_score"

\* The synthetic first rule of INSIGHTS.
InsightAll ==
    [key |-> "all", predicate |-> PredAlways, sort |-> SortDefault, heatFn |-> HeatNull]

-----------------------------------------------------------------------------
(* The rule compiler: regular expressions over rule texts *)

Digits == {"0", "1", "2", "3", "4", "5", "6", "7", "8", "9"}
Quotes == {"'", "\""}
Letters ==
    {"a", "b", "c", "d", "e", "f", "g", "h", "i", "j", "k", "l", "m", "n", "o", "p", "q",
     "r", "s", "t", "u", "v", "w", "x", "y", "z", "A", "B", "C", "D", "F", "R"}

\* The elements of a pattern that are no literal character.
RE_WS == "\\s*"
RE_NUM == "([\\d.]+)"
RE_INT == "(\\d+)"
RE_QUOTE == "['\"]"
RE_STR == "([^'\"]+)"
RE_WORD == "(\\w+)"
RE_WS1 == "\\s+"

\* Does character c belong to the class that the repeated element e stands for?
inClass(e, c) ==
    CASE e \in {RE_WS, RE_WS1} -> c = " "
      [] e = RE_NUM -> c \in Digits \cup {"."}
      [] e = RE_INT -> c \in Digits
      [] e = RE_STR -> c \notin Quotes
      [] e = RE_WORD -> c \in Letters \cup Digits \cup {"_"}
      [] OTHER -> FALSE

RECURSIVE runLength(_, _, _)
\* How many characters of text, from position pos on, a greedy repetition of e takes.
\* What follows a repetition in the patterns below never starts with a character of
\* the repeated class, so the longest run is the only one that can match.
runLength(text, pos, e) ==
    IF pos > Len(text) \/ ~inClass(e, text[pos]) THEN 0
    ELSE 1 + runLength(text, pos + 1, e)

RECURSIVE matchFrom(_, _, _, _, _)
\* The pattern's elements k.. matched against text from pos: <<>> when they do not
\* match, <<captures>> when they do.
matchFrom(text, pos, pat, k, caps) ==
    IF k > Len(pat) THEN <<caps>>
    ELSE LET e == pat[k]
             n == runLength(text, pos, e)
         IN CASE e = RE_WS -> matchFrom(text, pos + n, pat, k + 1, caps)
              [] e = RE_WS1 ->
                    IF n = 0 THEN <<>> ELSE matchFrom(text, pos + n, pat, k + 1, caps)
              [] e \in {RE_NUM, RE_INT, RE_STR, RE_WORD} ->
                    IF n = 0 THEN <<>>
                    ELSE matchFrom(text, pos + n, pat, k + 1,
                                   Append(caps, SubSeq(text, pos, pos + n - 1)))
              [] e = RE_QUOTE ->
                    IF pos <= Len(text) /\ text[pos] \in Quotes
                    THEN matchFrom(text, pos + 1, pat, k + 1, caps)
                    ELSE <<>>
              [] OTHER ->
                    IF pos <= Len(text) /\ text[pos] = e
                    THEN matchFrom(text, pos + 1, pat, k + 1, caps)
                    ELSE <<>>

\* String.prototype.match with a pattern that has no g flag: the captures of the
\* leftmost match as <<captures>>, <<>> for null.
match(text, pat) ==
    LET starts == {i \in 1..(Len(text) + 1) : matchFrom(text, i, pat, 1, <<>>) # <<>>}
    IN IF starts = {} THEN <<>>
       ELSE matchFrom(text, CHOOSE i \in starts : \A j \in starts : i <= j, pat, 1, <<>>)

RECURSIVE trim(_)
\* String.prototype.trim
trim(t) ==
    IF t = <<>> THEN t
    ELSE IF t[1] = " " THEN trim(Tail(t))
    ELSE IF t[Len(t)] = " " THEN trim(SubSeq(t, 1, Len(t) - 1))
    ELSE t

DigitVal(c) ==
    CASE c = "0" -> 0 [] c = "1" -> 1 [] c = "2" -> 2 [] c = "3" -> 3 [] c = "4" -> 4
      [] c = "5" -> 5 [] c = "6" -> 6 [] c = "7" -> 7 [] c = "8" -> 8 [] OTHER -> 9

RECURSIVE parseInt(_)
\* parseInt(t, 10) of a run of digits
parseInt(t) ==
    IF t = <<>> THEN 0
    ELSE 10 * parseInt(SubSeq(t, 1, Len(t) - 1)) + DigitVal(t[Len(t)])

\* A threshold no number reaches: x >= NaN is false for every x.
NaNThreshold == 1000000000

\* parseFloat of a run of digits and dots, in hundredths: the digits before the first
\* dot, and the first two of the digits between it and the next dot; NaN when the run
\* holds no digit before its second dot.
parseFloat(t) ==
    LET whole == runLength(t, 1, RE_INT)
        dotted == whole < Len(t)                    \* t[whole + 1] is a dot
        frac == IF dotted THEN runLength(t, whole + 2, RE_INT) ELSE 0
        d1 == IF frac >= 1 THEN DigitVal(t[whole + 2]) ELSE 0
        d2 == IF frac >= 2 THEN DigitVal(t[whole + 3]) ELSE 0
    IN IF whole = 0 /\ frac = 0 THEN NaNThreshold
       ELSE 100 * parseInt(SubSeq(t, 1, whole)) + 10 * d1 + d2

\* The pieces the four predicate patterns are made of.
RE_GE == <<RE_WS, ">", "=", RE_WS>>                \* \s*>=\s*
RE_AND == <<RE_WS, "&", "&", RE_WS>>               \* \s*&&\s*
RE_QUOTED == <<RE_QUOTE, RE_STR, RE_QUOTE>>        \* ['"]([^'"]+)['"]
RE_NOT_S == RE_AND \o <<"s", RE_WS, "!", "=", "=", RE_WS>> \o RE_QUOTED

\* The regular expressions of compilePredicate, in the order it tries them.
discoverPattern ==
    <<"r">> \o RE_GE \o <<RE_NUM>> \o RE_AND \o <<"v">> \o RE_GE \o <<RE_INT>>
        \o RE_AND \o <<"v", RE_WS, "<", "=", RE_WS, RE_INT>> \o RE_NOT_S
mustGoPattern ==
    <<"b", "2">> \o RE_GE \o <<RE_NUM>> \o RE_AND \o <<"v">> \o RE_GE \o <<RE_INT>>
        \o RE_NOT_S
topRatedPattern ==
    <<"r">> \o RE_GE \o <<RE_NUM>> \o RE_AND \o <<"v">> \o RE_GE \o <<RE_INT>>
raqiPattern ==
    <<"c", "o", "n", "s", "t", " ", "q", RE_WS, "=", RE_WS>> \o RE_QUOTED

\* The sentiment labels as the rule texts spell them.
LabelSpelling ==
    [l \in {AR_POSITIVE, AR_NEUTRAL, AR_NEGATIVE} |->
        CASE l = AR_POSITIVE -> <<"i", "j", "a", "b", "i">>
          [] l = AR_NEUTRAL -> <<"m", "u", "h", "a", "y", "i", "d">>
          [] OTHER -> <<"s", "a", "l", "b", "i">>]

\* The label a quoted text of a rule stands for; a text that spells none of the
\* sentiment labels differs from the sentiment of every record.
labelOf(t) ==
    IF \E l \in DOMAIN LabelSpelling : LabelSpelling[l] = t
    THEN CHOOSE l \in DOMAIN LabelSpelling : LabelSpelling[l] = t
    ELSE "<no sentiment label>"

T_returnTrue == <<"r", "e", "t", "u", "r", "n", " ", "t", "r", "u", "e", ";">>

\* compilePredicate with the always-false closure for a text of no known shape
predicateFallback_failClosed(code) == PredTopRated(NaNThreshold, 0)

\* compilePredicate's last return: the warning, and the closure (_) => true
predicateFallback(code) == PredAlways

\* compilePredicate with the rating-threshold pattern tried before the range pattern
compilePredicate_thresholdFirst(codeStr) ==
    LET code == trim(OrElseT(codeStr, <<>>))
        topRatedMatch == match(code, topRatedPattern)
        discoverMatch == match(code, discoverPattern)
        mustGoMatch == match(code, mustGoPattern)
        raqiMatch == match(code, raqiPattern)
    IN IF code = <<>> \/ code = T_returnTrue THEN PredAlways
       ELSE IF topRatedMatch # <<>>
       THEN PredTopRated(parseFloat(topRatedMatch[1][1]), parseInt(topRatedMatch[1][2]))
       ELSE IF discoverMatch # <<>>
       THEN PredDiscover(parseFloat(discoverMatch[1][1]), parseInt(discoverMatch[1][2]),
                         parseInt(discoverMatch[1][3]), labelOf(discoverMatch[1][4]))
       ELSE IF mustGoMatch # <<>>
       THEN PredMustGo(parseFloat(mustGoMatch[1][1]), parseInt(mustGoMatch[1][2]),
                       labelOf(mustGoMatch[1][3]))
       ELSE IF raqiMatch # <<>>
       THEN PredRaqi(toLowerCase(raqiMatch[1][1]))
       ELSE PredAlways

\* compilePredicate(codeStr): thresholds on rating and trust score are in hundredths.
\* Nothing in the try block can throw for a value that came out of JSON.parse.
compilePredicate(codeStr) ==
    LET code == trim(OrElseT(codeStr, <<>>))
        discoverMatch == match(code, discoverPattern)
        mustGoMatch == match(code, mustGoPattern)
        topRatedMatch == match(code, topRatedPattern)
        raqiMatch == match(code, raqiPattern)
    IN IF code = <<>> \/ code = T_returnTrue THEN PredAlways
       ELSE IF discoverMatch # <<>>
       THEN PredDiscover(parseFloat(discoverMatch[1][1]), parseInt(discoverMatch[1][2]),
                         parseInt(discoverMatch[1][3]), labelOf(discoverMatch[1][4]))
       ELSE IF mustGoMatch # <<>>
       THEN PredMustGo(parseFloat(mustGoMatch[1][1]), parseInt(mustGoMatch[1][2]),
                       labelOf(mustGoMatch[1][3]))
       ELSE IF topRatedMatch # <<>>
       THEN PredTopRated(parseFloat(topRatedMatch[1][1]), parseInt(topRatedMatch[1][2]))
       ELSE IF raqiMatch # <<>>
       THEN PredRaqi(toLowerCase(raqiMatch[1][1]))
       ELSE predicateFallback(code)

-----------------------------------------------------------------------------
(* Filtering and sorting *)

NumericFields ==
    {"rating", "reviews", "rating_count", "trust", "bayes2_score", "lat", "lng"}

\* num(p[f]): a field that is absent, null or no number counts as 0
num(p, f) == IF f \in NumericFields THEN NumOr(p[f], 0) ELSE 0

\* sortBySpec(a, b, spec)
sortBySpec(a, b, spec) ==
    CASE spec.kind = "desc" -> num(b, spec.field) - num(a, spec.field)
      [] spec.kind = "asc" -> num(a, spec.field) - num(b, spec.field)
      [] spec.kind = "special:mustgo" ->
            LET d1 == num(b, "bayes2_score") - num(a, "bayes2_score")
                d2 == num(b, "rating_count") - num(a, "rating_count")
            IN IF d1 # 0 THEN d1
               ELSE IF d2 # 0 THEN d2
               ELSE num(b, "rating") - num(a, "rating")
      [] OTHER ->
            LET d == num(b, "trust") - num(a, "trust")
            IN IF d # 0 THEN d ELSE num(b, "rating_count") - num(a, "rating_count")

RECURSIVE insertSorted(_, _, _)
\* x placed after every element it does not have to precede
insertSorted(sorted, x, spec) ==
    IF sorted = <<>> THEN <<x>>
    ELSE LET last == sorted[Len(sorted)]
         IN IF sortBySpec(last, x, spec) > 0
            THEN Append(insertSorted(SubSeq(sorted, 1, Len(sorted) - 1), x, spec), last)
            ELSE Append(sorted, x)

RECURSIVE sortRows(_, _)
\* Array.prototype.sort, which is stable
sortRows(rows, spec) ==
    IF rows = <<>> THEN <<>>
    ELSE insertSorted(sortRows(SubSeq(rows, 1, Len(rows) - 1), spec),
                      rows[Len(rows)], spec)

\* INSIGHTS.find(x => x.key === key) || INSIGHTS[0]
insightFor(ins, key) ==
    IF \E i \in 1..Len(ins) : ins[i].key = key
    THEN ins[CHOOSE i \in 1..Len(ins) :
                /\ ins[i].key = key
                /\ \A j \in 1..(i - 1) : ins[j].key # key]
    ELSE ins[1]

\* the district stage without its similarity-mode bypass
stageDistrict_noBypass(st, p) ==
    IF st.district = T_all THEN TRUE ELSE p.district = st.district

stageDistrict(st, p) ==
    IF st.similarMode THEN TRUE
    ELSE IF st.district = T_all THEN TRUE ELSE p.district = st.district

stageCategory(st, p) ==
    IF st.similarMode THEN TRUE
    ELSE IF T_all \in st.categories THEN TRUE ELSE p.category \in st.categories

stageInsight(st, pred, p) ==
    IF st.similarMode THEN TRUE ELSE applyPredicate(pred, p)

stageText(st, p) ==
    LET q == toLowerCase(st.q)
    IN IF q = <<>> THEN TRUE ELSE includes(toLowerCase(haystack(p)), q)

stageSentiment(st, p) ==
    IF st.sentiment = AR_ALL THEN TRUE ELSE p.sentiment = st.sentiment

stagePrice(st, p) ==
    IF st.price = AR_ALL THEN TRUE ELSE p.price = st.price

stageTags(st, p) ==
    IF st.tags = {} THEN TRUE ELSE \A t \in st.tags : t \in Range(p.tags)

\* The seven .filter(...) calls of filterData, each on the rows the one before kept.
filterDistrict(rows, st) ==
    SeqFilter(rows, {i \in 1..Len(rows) : stageDistrict(st, rows[i])})
filterCategory(rows, st) ==
    SeqFilter(rows, {i \in 1..Len(rows) : stageCategory(st, rows[i])})
filterInsight(rows, st, pred) ==
    SeqFilter(rows, {i \in 1..Len(rows) : stageInsight(st, pred, rows[i])})
filterText(rows, st) ==
    SeqFilter(rows, {i \in 1..Len(rows) : stageText(st, rows[i])})
filterSentiment(rows, st) ==
    SeqFilter(rows, {i \in 1..Len(rows) : stageSentiment(st, rows[i])})
filterPrice(rows, st) ==
    SeqFilter(rows, {i \in 1..Len(rows) : stagePrice(st, rows[i])})
filterTags(rows, st) ==
    SeqFilter(rows, {i \in 1..Len(rows) : stageTags(st, rows[i])})

\* filterData(rows), reading INSIGHTS and state
filterData(rows, ins, st) ==
    sortRows(
        filterTags(
            filterPrice(
                filterSentiment(
                    filterText(
                        filterInsight(
                            filterCategory(filterDistrict(rows, st), st),
                            st, insightFor(ins, st.insight).predicate),
                        st),
                    st),
                st),
            st),
        insightFor(ins, st.insight).sort)

\* /return\s*\(\s*p\.(\w+)\s*\?\?\s*([\d.]+)\s*\)\s*;?/
heatPattern ==
    <<"r", "e", "t", "u", "r", "n", RE_WS, "(", RE_WS, "p", ".", RE_WORD, RE_WS,
      "?", "?", RE_WS, RE_NUM, RE_WS, ")">>

\* allowedFields, as the rule texts spell them
AllowedFieldSpelling ==
    [f \in {"bayes2_score", "rating", "rating_count", "trust_score"} |->
        CASE f = "bayes2_score" ->
                <<"b", "a", "y", "e", "s", "2", "_", "s", "c", "o", "r", "e">>
          [] f = "rating" -> <<"r", "a", "t", "i", "n", "g">>
          [] f = "rating_count" ->
                <<"r", "a", "t", "i", "n", "g", "_", "c", "o", "u", "n", "t">>
          [] OTHER -> <<"t", "r", "u", "s", "t", "_", "s", "c", "o", "r", "e">>]

\* compileHeat(codeStr): the default is in hundredths, and parseFloat(...) || 0 turns
\* NaN into 0.
compileHeat(codeStr) ==
    LET code == trim(OrElseT(codeStr, <<>>))
        fieldMatch == match(code, heatPattern)
        allowed == {f \in DOMAIN AllowedFieldSpelling :
                      AllowedFieldSpelling[f] = fieldMatch[1][1]}
        parsed == parseFloat(fieldMatch[1][2])
    IN IF code = <<>> THEN HeatZero
       ELSE IF fieldMatch = <<>> THEN HeatZero
       ELSE IF allowed = {} THEN HeatZero
       ELSE HeatField(CHOOSE f \in allowed : TRUE,
                      IF parsed = NaNThreshold THEN 0 ELSE parsed)

\* A record's field as a number of hundredths: ratings are kept in tenths, trust
\* scores in hundredths, counts in units; NULLISH when the record has no such field.
hundredths(p, fld) ==
    IF fld \notin DOMAIN p \/ p[fld] = NULLISH THEN NULLISH
    ELSE CASE fld = "rating" -> 10 * p[fld]
           [] fld = "rating_count" -> 100 * p[fld]
           [] OTHER -> p[fld]

\* Calling a compiled heat function on a record: the result in hundredths.
applyHeat(h, p) ==
    IF h.shape = "field" THEN NumOr(hundredths(p, h.field), h.default) ELSE 0

\* Math.max(0, Math.min(1, x)) on a number of hundred-thousandths
clamp01(x) == IF x < 0 THEN 0 ELSE IF x > 100000 THEN 100000 ELSE x

\* updateHeatLayer's weightFn when the rule has no heatFn, in hundred-thousandths:
\* 0.65 * b2 + 0.35 * nv with b2 in hundredths and nv = clamp(v / 500).
defaultWeight(p) ==
    LET b2 == NumOr(p.bayes2_score, 0)
        v == NumOr(p.rating_count, 0)
        nv500 == IF v < 0 THEN 0 ELSE IF v > 500 THEN 500 ELSE v    \* 500 * nv
    IN clamp01(650 * b2 + 70 * nv500)

\* The weight updateHeatLayer pushes for a record, in hundred-thousandths.  No number
\* of the model is NaN, so the 0.2 that replaces a weight that is not finite is never
\* used.
heatWeight(ins, st, p) ==
    LET insightObj == insightFor(ins, st.insight)
    IN IF insightObj.heatFn.shape # "null"
       THEN 1000 * applyHeat(insightObj.heatFn, p)
       ELSE defaultWeight(p)

\* An entry of toggle_config.json: predicate and heat are rule texts, Undefined when
\* the entry has none; sort is the directive, of kind "missing" when it has none.
ConfigEntry(key, predicate, sort, heat) ==
    [key |-> key, predicate |-> predicate, sort |-> sort, heat |-> heat]
MissingSort == SortSpec("missing", "")

\* loadToggleConfig() resolved to null: the fetch failed, the response was not ok, its
\* body was no JSON, or the document is null.
NoConfig == [present |-> FALSE, entries |-> <<>>]
ConfigDocument(entries) == [present |-> TRUE, entries |-> entries]

\* const order = [...]
InsightOrder == <<"must_go", "trust_rank", "top_rated", "old_is_gold", "search_match">>

\* const keys = order.filter(k => cfg[k]).concat(Object.keys(cfg).filter(...)): the
\* entries of the document in that order.
orderedEntries(entries) ==
    LET named(k) == {i \in 1..Len(entries) : entries[i].key = k}
        first == SeqFilter(InsightOrder,
                           {n \in 1..Len(InsightOrder) : named(InsightOrder[n]) # {}})
        rest == SeqFilter(entries,
                          {i \in 1..Len(entries) : entries[i].key \notin Range(InsightOrder)})
    IN [n \in 1..Len(first) |-> entries[CHOOSE i \in named(first[n]) : TRUE]] \o rest

\* rebuildInsightsFromToggleConfig with the synthetic rule left out when there are others
rebuildInsightsFromToggleConfig_noBase(cfg) ==
    IF ~cfg.present \/ cfg.entries = <<>> THEN <<InsightAll>>
    ELSE LET es == orderedEntries(cfg.entries)
         IN [n \in 1..Len(es) |->
                [key |-> es[n].key,
                 predicate |-> compilePredicate(OrElseT(es[n].predicate, T_returnTrue)),
                 sort |-> IF es[n].sort = MissingSort THEN SortDefault ELSE es[n].sort,
                 heatFn |-> IF TruthyT(es[n].heat) THEN compileHeat(es[n].heat)
                            ELSE HeatNull]]

\* rebuildInsightsFromToggleConfig(cfg): the value it leaves in INSIGHTS
rebuildInsightsFromToggleConfig(cfg) ==
    IF ~cfg.present THEN <<InsightAll>>
    ELSE LET es == orderedEntries(cfg.entries)
         IN <<InsightAll>> \o
            [n \in 1..Len(es) |->
                [key |-> es[n].key,
                 predicate |-> compilePredicate(OrElseT(es[n].predicate, T_returnTrue)),
                 sort |-> IF es[n].sort = MissingSort THEN SortDefault ELSE es[n].sort,
                 heatFn |-> IF TruthyT(es[n].heat) THEN compileHeat(es[n].heat)
                            ELSE HeatNull]]

\* filterData that sorts the array it is given
filterDataLeaves_sortInPlace(rows, ins, st) ==
    sortRows(rows, insightFor(ins, st.insight).sort)

\* The array handed to filterData, after the call: the first .filter() builds a new
\* array, and .sort() orders that one.
filterDataLeaves(rows, ins, st) == rows

\* DATA after a render(): in similarity mode filterData is given state.similarResults.
renderLeaves(data, ins, st) ==
    IF st.similarMode THEN data ELSE filterDataLeaves(data, ins, st)

\* updateHeatLayer(list): the points of the heat layer and their weights, none when
\* the heatmap is off.  Every row of a list has finite coordinates, so none is skipped.
heatLayer(list, ins, st) ==
    IF st.heatmap = "Off" THEN <<>>
    ELSE [i \in 1..Len(list) |->
            [id |-> list[i].id, weight |-> heatWeight(ins, st, list[i])]]

\* What render() displays: the rows it starts from, the list it builds and the heat layer.
rendered(data, ins, st) ==
    [base |-> IF st.similarMode THEN "similarResults" ELSE "DATA",
     list |-> filterData(IF st.similarMode THEN st.similarResults ELSE data, ins, st)]

\* The variable shown after a render(): timer tells whether the search box's debounced
\* render is still to come, and a render does not change that.
display(data, ins, st, timer) ==
    [base |-> IF st.similarMode THEN "similarResults" ELSE "DATA",
     list |-> rendered(data, ins, st).list,
     heat |-> heatLayer(rendered(data, ins, st).list, ins, st),
     timer |-> timer]

-----------------------------------------------------------------------------
(* Bounds and the inputs the model draws from *)

MaxCalls == 1      \* findSimilar invocations that may be in flight together
MaxRaw == 3        \* records in one places response

RECURSIVE SeqsUpTo(_, _)
\* the sequences over S of length at most n
SeqsUpTo(S, n) ==
    IF n = 0 THEN {<<>>}
    ELSE LET shorter == SeqsUpTo(S, n - 1)
         IN shorter \cup {Append(t, x) : t \in {u \in shorter : Len(u) = n - 1}, x \in S}

T_Ab == <<"A", "b">>
T_cd == <<"c", "d">>
T_north == <<"n">>
T_cafe == <<"c">>
T_tagB == <<"b">>
T_tagD == <<"D">>

\* Two well-formed raw places, the second one spelt with the legacy field names.
RawA ==
    [RawBlank EXCEPT !.place_id = "a", !.lat = JsNum(247000), !.lng = JsNum(467000),
        !.name = T_Ab, !.district = T_north, !.category = T_cafe,
        !.sentiment_label_ar = AR_POSITIVE, !.price_level = "$$",
        !.rating = 45, !.rating_count = 200, !.bayes2_score = 80,
        !.tags = <<T_tagB, T_tagD>>]
RawB ==
    [RawBlank EXCEPT !.id = "b", !.latitude = JsNum(900000), !.longitude = JsNum(1800000),
        !.name = T_cd, !.primary_type = T_cafe,
        !.sentiment = AR_NEGATIVE,
        !.rating = 41, !.user_ratings_total = 100, !.trust = 40,
        !.tags_ar = <<T_tagB>>]

\* Raw records a similarity response may hold.
SimB ==
    [RawBlank EXCEPT !.place_id = "b", !.lat = JsNum(248000), !.lng = JsNum(468000),
        !.name = T_cd, !.sentiment_label_ar = AR_POSITIVE, !.price_bucket_ar = "$$",
        !.rating = 41, !.rating_count = 100, !.bayes2_score = 40, !.tags = <<T_tagB>>]
SimA ==
    [RawBlank EXCEPT !.id = "a", !.lat = JsNum(247000), !.lng = JsNum(467000),
        !.name = T_Ab]
SimFar ==
    [RawBlank EXCEPT !.place_id = "c", !.lat = JsNum(950000), !.lng = JsNum(467000),
        !.name = T_Ab, !.tags = <<T_tagD>>]
SimNoCoord == [RawBlank EXCEPT !.place_id = "d", !.lat = JsNaNStr, !.lng = JsNum(467000)]
SimNoId == [RawBlank EXCEPT !.lat = JsNum(247000), !.lng = JsNum(467000)]

\* The bodies of an ok similarity response: a bare array, an object with results or
\* with items, an object with neither, and a body that is no JSON.
SimilarBody(shape, arr) == [shape |-> shape, arr |-> arr]
SimilarBodies ==
    {SimilarBody("array", arr) :
        arr \in {<<>>, <<SimB>>, <<SimA>>, <<SimA, SimB>>, <<SimFar, SimB>>,
                 <<SimB, SimNoCoord, SimFar>>, <<SimNoId, SimA>>}}
    \cup {SimilarBody("results", <<SimB, SimA>>), SimilarBody("items", <<SimFar>>),
          SimilarBody("neither", <<SimB>>), SimilarBody("not_json", <<>>)}

\* The identifiers a user action may name: those of the loaded places and one more.
PlaceIds == {"a", "b", "x"}

NullId == "<null>"

\* A configuration with one rule, must_go, with a trust threshold.
T_mustGoRule ==
    <<"b", "2", " ", ">", "=", " ", "0", ".", "5", " ", "&", "&", " ",
      "v", " ", ">", "=", " ", "5", "0", " ", "&", "&", " ",
      "s", " ", "!", "=", "=", " ", "'", "s", "a", "l", "b", "i", "'">>
SampleConfig ==
    ConfigDocument(<<ConfigEntry("must_go", T_mustGoRule,
                                 SortSpec("special:mustgo", ""), Undefined)>>)

\* The rules the sample configuration yields.
SampleInsights == rebuildInsightsFromToggleConfig(SampleConfig)

Districts == {T_all, T_north}

-----------------------------------------------------------------------------
(* fetchWithRetry *)

MaxRetries == 3    \* the maxRetries every caller passes

Outcomes == {"ok", "429", "5xx", "4xx", "network_error"}

\* the loop retrying a 4xx response as it retries a 5xx
retryStep_retriesClientError(attempt, outcome, maxRetries) ==
    CASE outcome = "ok" -> "return"
      [] outcome = "429" -> "wait"
      [] outcome \in {"5xx", "4xx"} -> IF attempt < maxRetries - 1 THEN "wait" ELSE "return"
      [] outcome = "network_error" ->
            IF attempt < maxRetries - 1 THEN "wait" ELSE "exhausted"
      [] OTHER -> "return"

\* What one pass of the loop does once the fetch of attempt number `attempt` settled:
\* "return" the response, "wait" and go round again, or leave the loop ("exhausted").
\* After the loop the function throws, lastError or a new Error.
retryStep(attempt, outcome, maxRetries) ==
    CASE outcome = "ok" -> "return"
      [] outcome = "429" -> "wait"
      [] outcome = "5xx" -> IF attempt < maxRetries - 1 THEN "wait" ELSE "return"
      [] outcome = "network_error" ->
            IF attempt < maxRetries - 1 THEN "wait" ELSE "exhausted"
      [] OTHER -> "return"

\* the loop test written attempt <= maxRetries
loopContinues_offByOne(attempt, maxRetries) == attempt + 1 <= maxRetries

\* for (...; attempt < maxRetries; attempt++): is there another pass after the wait?
loopContinues(attempt, maxRetries) == attempt + 1 < maxRetries

-----------------------------------------------------------------------------
(* The FilterState and the similarity session *)

\* const state = {...}; similarAnchor is <<>> for null and <<record>> otherwise.
InitialState ==
    [similarMode |-> FALSE,
     similarAnchor |-> <<>>,
     similarResults |-> <<>>,
     q |-> <<>>,
     district |-> T_all,
     insight |-> "must_go",
     categories |-> {T_all},
     sentiment |-> AR_ALL,
     price |-> AR_ALL,
     tags |-> {},
     heatmap |-> "Off"]

\* enterSimilarMode with `SELECTED_ID = null` left out
enterSimilarMode_keepsSelection(st, anchor, results) ==
    [state |-> [st EXCEPT !.similarMode = TRUE,
                          !.similarAnchor = <<anchor>>,
                          !.similarResults = results],
     selected |-> SELECTED_ID,
     effects |-> <<"enterSimilarMode", "similarBar:show", "render">>]

\* enterSimilarMode that keeps an anchor it already has
enterSimilarMode_keepsAnchor(st, anchor, results) ==
    [state |-> [st EXCEPT !.similarMode = TRUE,
                          !.similarAnchor =
                              IF st.similarAnchor = <<>> THEN <<anchor>> ELSE st.similarAnchor,
                          !.similarResults = results],
     selected |-> NullId,
     effects |-> <<"enterSimilarMode", "similarBar:show", "render">>]

\* enterSimilarMode(anchor, results): the state it leaves, and its effects in order.
enterSimilarMode(st, anchor, results) ==
    [state |-> [st EXCEPT !.similarMode = TRUE,
                          !.similarAnchor = <<anchor>>,
                          !.similarResults = results],
     selected |-> NullId,
     effects |-> <<"enterSimilarMode", "similarBar:show", "render">>]

\* exitSimilarMode(reason)
exitSimilarMode(st) ==
    [state |-> [st EXCEPT !.similarMode = FALSE,
                          !.similarAnchor = <<>>,
                          !.similarResults = <<>>],
     selected |-> NullId,
     effects |-> (IF st.similarMode THEN <<"ga:similar_clear">> ELSE <<>>)
                    \o <<"exitSimilarMode", "similarBar:hide", "render">>]

\* Array.isArray(payload) ? payload : (payload?.results || payload?.items || [])
similarPayloadArray(shape, arr) ==
    IF shape \in {"array", "results", "items"} THEN arr ELSE <<>>

\* findSimilar after an ok response whose body parsed
similarSuccess(st, call, shape, arr) ==
    LET results == normalizeSimilarResults(similarPayloadArray(shape, arr), call.place_id)
        entered == enterSimilarMode(st, call.anchor[1], results)
    IN [entered EXCEPT !.effects = <<"ga:similar_success">> \o entered.effects]

\* findSimilar after a response that is not ok
similarHttpError(st) ==
    LET left == exitSimilarMode(st)
    IN [left EXCEPT !.effects =
            <<"ga:similar_error", "showToast:error", "console.error">> \o left.effects]

\* findSimilar's catch block with the exitSimilarMode call left out
similarException_noExit(st) ==
    [state |-> st,
     selected |-> SELECTED_ID,
     effects |-> <<"console.error", "ga:similar_error", "showToast:error">>]

\* findSimilar's catch block
similarException(st) ==
    LET left == exitSimilarMode(st)
    IN [left EXCEPT !.effects =
            <<"console.error", "ga:similar_error", "showToast:error">> \o left.effects]

FreeCall ==
    [pc |-> "free", place_id |-> "", anchor |-> <<>>, attempt |-> 0,
     sent |-> 0, fromActive |-> FALSE, superseded |-> FALSE]

\* A handler's outcome written to the variables; render() ran at its end.
Settle(res, op, arg) ==
    /\ state' = res.state
    /\ SELECTED_ID' = res.selected
    /\ ev' = [op |-> op, arg |-> arg, effects |-> res.effects]
    /\ shown' = display(DATA, INSIGHTS, res.state, shown.timer)
    /\ DATA' = renderLeaves(DATA, INSIGHTS, res.state)

\* a lookup that falls back to the first place
findPlace_firstOnMiss(data, pid) ==
    LET found == {i \in 1..Len(data) : data[i].id = pid}
    IN IF found = {} THEN <<data[1]>>
       ELSE <<data[CHOOSE i \in found : \A j \in found : i <= j]>>

\* DATA.find(p => String(p.id) === String(place_id)): <<>> when there is none
findPlace(data, pid) ==
    LET found == {i \in 1..Len(data) : data[i].id = pid}
    IN IF found = {} THEN <<>>
       ELSE <<data[CHOOSE i \in found : \A j \in found : i <= j]>>

\* The calls in flight once the user has acted on the similarity session again.
supersede(cs) ==
    [c \in DOMAIN cs |-> IF cs[c].pc = "free" THEN cs[c]
                         ELSE [cs[c] EXCEPT !.superseded = TRUE]]

\* window.findSimilar(place_id), up to its await: the first fetch is issued at once.
FindSimilar(pid) ==
    LET anchor == findPlace(DATA, pid)
        free == {c \in 1..MaxCalls : calls[c].pc = "free"}
    IN IF anchor = <<>>
       THEN /\ ev' = [op |-> "findSimilar", arg |-> pid, effects |-> <<>>]
            /\ UNCHANGED <<DATA, INSIGHTS, state, SELECTED_ID, calls, shown, boot>>
       ELSE /\ free # {}
            /\ LET c == CHOOSE k \in free : \A j \in free : k <= j
               IN calls' = [supersede(calls) EXCEPT ![c] =
                               [pc |-> "fetch", place_id |-> pid, anchor |-> anchor,
                                attempt |-> 0, sent |-> 1,
                                fromActive |-> state.similarMode,
                                superseded |-> FALSE]]
            /\ ev' = [op |-> "findSimilar", arg |-> pid,
                      effects |-> <<"similarBar:searching", "ga:similar_request", "fetch">>]
            /\ UNCHANGED <<DATA, INSIGHTS, state, SELECTED_ID, shown, boot>>

\* The fetch of call c settles with `outcome`: one pass of fetchWithRetry's loop and,
\* when it returns or throws, the rest of findSimilar.
FetchSettles(c, outcome) ==
    LET call == calls[c]
        step == retryStep(call.attempt, outcome, MaxRetries)
    IN /\ call.pc = "fetch"
       /\ IF step = "wait"
          THEN /\ calls' = [calls EXCEPT ![c].pc = "backoff"]
               /\ ev' = [op |-> "fetchWithRetry", arg |-> call.place_id,
                         effects |-> <<"console.warn", "setTimeout">>]
               /\ UNCHANGED <<DATA, state, SELECTED_ID, shown>>
          ELSE /\ calls' = [calls EXCEPT ![c] = FreeCall]
               /\ IF step = "return" /\ outcome = "ok"
                  THEN \E body \in SimilarBodies :
                          IF body.shape = "not_json"
                          THEN Settle(similarException(state), "findSimilar:catch",
                                      call.place_id)
                          ELSE Settle(similarSuccess(state, call, body.shape, body.arr),
                                      "findSimilar:success", call.place_id)
                  ELSE IF step = "return"
                  THEN Settle(similarHttpError(state), "findSimilar:http_error",
                              call.place_id)
                  ELSE Settle(similarException(state), "findSimilar:catch", call.place_id)
       /\ UNCHANGED <<INSIGHTS, boot>>

\* The wait of call c is over: the loop goes round again or ends, and then
\* fetchWithRetry throws.
BackoffElapsed(c) ==
    LET call == calls[c]
    IN /\ call.pc = "backoff"
       /\ IF loopContinues(call.attempt, MaxRetries)
          THEN /\ calls' = [calls EXCEPT ![c].pc = "fetch",
                               ![c].attempt = call.attempt + 1,
                               ![c].sent = call.sent + 1]
               /\ ev' = [op |-> "fetchWithRetry", arg |-> call.place_id,
                         effects |-> <<"fetch">>]
               /\ UNCHANGED <<DATA, state, SELECTED_ID, shown>>
          ELSE /\ calls' = [calls EXCEPT ![c] = FreeCall]
               /\ Settle(similarException(state), "findSimilar:catch", call.place_id)
       /\ UNCHANGED <<INSIGHTS, boot>>

\* exitSimilarMode() called from the page
ExitSimilar ==
    /\ Settle(exitSimilarMode(state), "exitSimilarMode", "")
    /\ calls' = supersede(calls)
    /\ UNCHANGED <<INSIGHTS, boot>>

\* selectPlaceById(id)
SelectPlace(pid) ==
    /\ IF findPlace(DATA, pid) # <<>>
       THEN /\ SELECTED_ID' = pid
            /\ ev' = [op |-> "selectPlaceById", arg |-> pid,
                      effects |-> <<"ga:place_select", "focusPlace">>]
       ELSE /\ SELECTED_ID' = SELECTED_ID
            /\ ev' = [op |-> "selectPlaceById", arg |-> pid, effects |-> <<>>]
    /\ UNCHANGED <<DATA, INSIGHTS, state, calls, shown, boot>>

\* the district <select>'s change handler
DistrictChange(d) ==
    /\ Settle([state |-> [state EXCEPT !.district = d], selected |-> NullId,
               effects |-> <<"ga:district_change", "render">>],
              "district:change", "")
    /\ UNCHANGED <<INSIGHTS, calls, boot>>

BootReady == [pc |-> "ready"]

Init ==
    /\ DATA = placesFromRaw(<<RawB, RawA>>)
    /\ INSIGHTS = SampleInsights
    /\ state = InitialState
    /\ SELECTED_ID = NullId
    /\ calls = [c \in 1..MaxCalls |-> FreeCall]
    /\ ev = [op |-> "init", arg |-> "", effects |-> <<"render">>]
    /\ shown = display(placesFromRaw(<<RawB, RawA>>), SampleInsights, InitialState, FALSE)
    /\ boot = BootReady

Next ==
    \/ \E pid \in PlaceIds : FindSimilar(pid)
    \/ \E c \in 1..MaxCalls, outcome \in Outcomes : FetchSettles(c, outcome)
    \/ \E c \in 1..MaxCalls : BackoffElapsed(c)
    \/ ExitSimilar
    \/ \E pid \in PlaceIds : SelectPlace(pid)

Spec == Init /\ [][Next]_vars

-----------------------------------------------------------------------------
(* Claims about the similarity session *)

\* x occurs in s, and somewhere before a y
Before(s, x, y) == \E i, j \in 1..Len(s) : i < j /\ s[i] = x /\ s[j] = y

InFlight(c) == calls[c].pc # "free"

\* C2: when a similarity request fails (a response that is not ok, or an exception),
\* the toast and the console.error entry come before exitSimilarMode, and after the
\* handler similarity mode is off, anchor and results are cleared and the render that
\* closes the handler starts from DATA.
C2_FailureLeavesSimilarMode ==
    ev.op \in {"findSimilar:http_error", "findSimilar:catch"} =>
        /\ Before(ev.effects, "showToast:error", "exitSimilarMode")
        /\ Before(ev.effects, "console.error", "exitSimilarMode")
        /\ Before(ev.effects, "exitSimilarMode", "render")
        /\ ~state.similarMode
        /\ state.similarAnchor = <<>>
        /\ state.similarResults = <<>>
        /\ shown.base = "DATA"
        /\ shown.list = filterData(DATA, INSIGHTS, state)

\* C2's case: a request failed while an earlier anchor's results were displayed.
C2_Witness ==
    /\ ev.op \in {"findSimilar:http_error", "findSimilar:catch"}
    /\ "ga:similar_clear" \in Range(ev.effects)
    /\ ~state.similarMode

\* C3 as stated: while a request for another anchor is in flight, similarity mode is
\* not showing the earlier anchor's results.
C3_ExitsBeforePending ==
    \A c \in 1..MaxCalls :
        InFlight(c) =>
            ~(state.similarMode /\ state.similarAnchor[1].id # calls[c].place_id)

\* C3 amended: triggering findSimilar, and every automatic retry of its fetch, leaves
\* the session as it was (an Active session keeps its anchor and results on display);
\* the session changes only when the request settles: a success puts the requested
\* anchor and its results in place, a failure clears the session.
C3_ActiveUntilSettled ==
    [][/\ ev'.op \in {"findSimilar", "fetchWithRetry"} =>
            /\ state' = state
            /\ shown' = shown
       /\ ev'.op = "findSimilar:success" =>
            /\ state'.similarMode
            /\ state'.similarAnchor[1].id = ev'.arg
            /\ shown'.base = "similarResults"
       /\ ev'.op \in {"findSimilar:http_error", "findSimilar:catch"} =>
            ~state'.similarMode]_vars

\* C3's case: a request for another anchor is pending while the earlier anchor's
\* results are still displayed.
C3_Witness ==
    \E c \in 1..MaxCalls :
        /\ InFlight(c)
        /\ calls[c].fromActive
        /\ state.similarMode
        /\ state.similarAnchor[1].id # calls[c].place_id
        /\ shown.base = "similarResults"

\* C4 as stated: one trigger of findSimilar sends at most one request.
C4_OneRequestPerTrigger == \A c \in 1..MaxCalls : calls[c].sent <= 1

\* C4 amended: one trigger of findSimilar sends at most MaxRetries requests: the first
\* at the trigger, the others by fetchWithRetry after a wait; once the call has
\* settled, nothing is sent until findSimilar is triggered again.
C4_AtMostMaxRetriesPerTrigger ==
    [][\A c \in 1..MaxCalls :
          calls'[c].sent # calls[c].sent =>
              \/ /\ ev'.op = "findSimilar"
                 /\ ~InFlight(c)
                 /\ calls'[c].sent = 1
              \/ /\ ev'.op = "fetchWithRetry"
                 /\ calls[c].pc = "backoff"
                 /\ calls'[c].sent = calls[c].sent + 1
                 /\ calls'[c].sent <= MaxRetries
              \/ /\ calls'[c].pc = "free"
                 /\ calls'[c].sent = 0]_vars

\* C4's case: a trigger whose request was sent MaxRetries times.
C4_Witness == \E c \in 1..MaxCalls : calls[c].sent = MaxRetries /\ calls[c].pc = "fetch"

\* C5: findSimilar with an identifier no loaded place has changes nothing: no request,
\* the same similarity session, the same selection.
C5_UnknownAnchorNoOp ==
    [][(ev'.op = "findSimilar" /\ \A i \in 1..Len(DATA) : DATA[i].id # ev'.arg) =>
          /\ calls' = calls
          /\ state' = state
          /\ SELECTED_ID' = SELECTED_ID
          /\ shown' = shown
          /\ ev'.effects = <<>>]_vars

\* C5's case: findSimilar was called with an unknown identifier while a selection and
\* an Active session existed.
C5_Witness ==
    /\ ev.op = "findSimilar"
    /\ ev.arg = "x"
    /\ state.similarMode
    /\ SELECTED_ID # NullId

\* C6: after a handler that ran enterSimilarMode or exitSimilarMode nothing is selected.
C6_SelectionCleared ==
    (\/ "enterSimilarMode" \in Range(ev.effects)
     \/ "exitSimilarMode" \in Range(ev.effects)) => SELECTED_ID = NullId

\* C6's case: similarity mode was entered.
C6_Witness ==
    /\ "enterSimilarMode" \in Range(ev.effects)
    /\ state.similarMode
    /\ SELECTED_ID = NullId

\* C7 as stated: after a successful response every record of similarResults has an
\* identifier other than the anchor's and coordinates within the geographic range.
C7_SimilarResultsValidated ==
    ev.op = "findSimilar:success" =>
        \A i \in 1..Len(state.similarResults) :
            LET r == state.similarResults[i]
            IN /\ Truthy(r.id)
               /\ r.id # state.similarAnchor[1].id
               /\ r.lat >= -900000 /\ r.lat <= 900000
               /\ r.lng >= -1800000 /\ r.lng <= 1800000

-----------------------------------------------------------------------------
(* The filter handlers over a loaded dataset *)

T_bA == <<"b", "A">>
T_south == <<"s">>
T_rest == <<"r">>

RawC ==
    [RawBlank EXCEPT !.gid = "c", !.lat = JsNum(-900000), !.lng = JsNum(-1800000),
        !.name = T_bA, !.district_ar = T_south, !.category = T_rest,
        !.price = "$", !.rating = 48, !.reviews = 60, !.bayes2_score = 90]

FilterPlaces == placesFromRaw(<<RawA, RawB, RawC>>)

\* The values the filter controls are set to.
Queries == {<<>>, <<"B">>, <<"b", " ", "d">>, <<"d", "e">>}
CategorySets == {{T_all}, {T_cafe}}
SentimentPicks == {AR_ALL, AR_POSITIVE}
PricePicks == {AR_ALL, "$$"}
TagSets == {{}, {T_tagB}}
InsightKeys == {"must_go", "all"}

\* The sessions the filter handlers start from: Idle, and Active on place a.
ActiveOnA ==
    enterSimilarMode(InitialState, placeFromRaw(RawA),
                     normalizeSimilarResults(<<SimB, SimFar, SimA>>, "a")).state
FilterSessions == {InitialState, ActiveOnA}

\* A filter handler's new state, followed by render().
Apply(st, op, effects) ==
    Settle([state |-> st, selected |-> SELECTED_ID, effects |-> effects \o <<"render">>],
           op, "")

\* the search box's input handler: state.q is set, the render is debounced
QInput(q) ==
    /\ state' = [state EXCEPT !.q = q]
    /\ ev' = [op |-> "q:input", arg |-> "", effects |-> <<"debounce">>]
    /\ shown' = [shown EXCEPT !.timer = TRUE]
    /\ UNCHANGED <<DATA, INSIGHTS, SELECTED_ID, calls, boot>>

\* the debounced render() fires
DebouncedRender ==
    /\ shown.timer
    /\ shown' = display(DATA, INSIGHTS, state, FALSE)
    /\ DATA' = renderLeaves(DATA, INSIGHTS, state)
    /\ ev' = [op |-> "debouncedRender", arg |-> "", effects |-> <<"render">>]
    /\ UNCHANGED <<INSIGHTS, state, SELECTED_ID, calls, boot>>

\* the categories menu applies a selection
CategoriesApply(cs) ==
    /\ Apply([state EXCEPT !.categories = cs], "categories:apply", <<"ga:categories_apply">>)
    /\ UNCHANGED <<INSIGHTS, calls, boot>>

\* the sentiment menu's pick
SentimentPick(v) ==
    /\ Apply([state EXCEPT !.sentiment = v], "sentiment:pick", <<"ga:sentiment_change">>)
    /\ UNCHANGED <<INSIGHTS, calls, boot>>

\* the price menu's pick
PricePick(v) ==
    /\ Apply([state EXCEPT !.price = v], "price:pick", <<"ga:price_change">>)
    /\ UNCHANGED <<INSIGHTS, calls, boot>>

\* the tags menu applies a selection
TagsApply(ts) ==
    /\ Apply([state EXCEPT !.tags = ts], "tags:apply", <<"ga:tags_apply">>)
    /\ UNCHANGED <<INSIGHTS, calls, boot>>

\* an insight menu entry's click handler
InsightPick(k) ==
    /\ Apply([state EXCEPT !.insight = k], "insight:pick", <<"ga:insight_pick">>)
    /\ UNCHANGED <<INSIGHTS, calls, boot>>

\* resetAllFiltersToDefault(): the fields it assigns, and what it leaves as it is
resetFilters(st) ==
    [st EXCEPT !.q = <<>>, !.district = T_all, !.insight = "must_go",
               !.categories = {T_all}, !.sentiment = AR_ALL, !.price = AR_ALL,
               !.tags = {}, !.heatmap = "Off"]

\* the click handler of the two reset buttons
ResetAll ==
    /\ Settle([state |-> resetFilters(state), selected |-> NullId,
               effects |-> <<"ga:filters_reset">>
                              \o (IF state.similarMode THEN <<"ga:similar_clear">>
                                  ELSE <<>>)
                              \o <<"syncTopChipLabels", "closeMenus", "render">>],
              "resetAll", "")
    /\ UNCHANGED <<INSIGHTS, calls, boot>>

InitFilter ==
    /\ DATA = FilterPlaces
    /\ INSIGHTS = SampleInsights
    /\ \E session \in FilterSessions, d \in Districts :
          /\ state = [session EXCEPT !.district = d]
          /\ shown = display(FilterPlaces, SampleInsights,
                             [session EXCEPT !.district = d], FALSE)
    /\ SELECTED_ID = NullId
    /\ calls = [c \in 1..MaxCalls |-> FreeCall]
    /\ ev = [op |-> "init", arg |-> "", effects |-> <<"render">>]
    /\ boot = BootReady

NextFilter ==
    \/ \E q \in Queries : QInput(q)
    \/ DebouncedRender
    \/ \E d \in Districts : DistrictChange(d)
    \/ \E cs \in CategorySets : CategoriesApply(cs)
    \/ \E v \in SentimentPicks : SentimentPick(v)
    \/ \E v \in PricePicks : PricePick(v)
    \/ \E ts \in TagSets : TagsApply(ts)
    \/ \E k \in InsightKeys : InsightPick(k)
    \/ ExitSimilar
    \/ ResetAll

SpecFilter == InitFilter /\ [][NextFilter]_vars

\* how often r occurs in s
Count(s, r) == Cardinality({i \in 1..Len(s) : s[i] = r})

\* The rows render() starts from.
BaseRows == IF state.similarMode THEN state.similarResults ELSE DATA

\* C1's conditions on one row, under the current FilterState.
C1_TextOk(r) ==
    state.q = <<>> \/ includes(toLowerCase(haystack(r)), toLowerCase(state.q))
C1_AlwaysApplied(r) ==
    /\ C1_TextOk(r)
    /\ (state.sentiment = AR_ALL \/ r.sentiment = state.sentiment)
    /\ (state.price = AR_ALL \/ r.price = state.price)
    /\ state.tags \subseteq Range(r.tags)
C1_OutsideSimilarMode(r) ==
    /\ (state.district = T_all \/ r.district = state.district)
    /\ (T_all \in state.categories \/ r.category \in state.categories)
    /\ applyPredicate(insightFor(INSIGHTS, state.insight).predicate, r)
C1_Kept(r) ==
    /\ C1_AlwaysApplied(r)
    /\ (~state.similarMode => C1_OutsideSimilarMode(r))

\* C1: the list a render builds holds exactly the rows that pass the text, sentiment,
\* price and tag conditions and, outside similarity mode only, also the district,
\* category and insight conditions; in similarity mode those three are not applied.
C1_FilterExact ==
    "render" \in Range(ev.effects) =>
        /\ Range(shown.list) \subseteq Range(BaseRows)
        /\ \A r \in Range(BaseRows) :
              Count(shown.list, r) = IF C1_Kept(r) THEN Count(BaseRows, r) ELSE 0

\* C1's case: in similarity mode with a district chosen, a render narrowed the
\* similarity results by the filters that still apply and kept some.
C1_Witness ==
    /\ "render" \in Range(ev.effects)
    /\ state.similarMode
    /\ state.district = T_north
    /\ state.tags # {}
    /\ Len(shown.list) > 0
    /\ Len(shown.list) < Len(state.similarResults)

-----------------------------------------------------------------------------
(* The places load: init(), loadRealPlacesAndBootstrapUI and fetchPlacesCached *)

\* Raw records a places response may hold besides RawA and RawB, one for each reason
\* validatePlaceData rejects with.
RawOut == [RawA EXCEPT !.place_id = "o", !.lat = JsNum(900001)]
RawNoId == [RawA EXCEPT !.place_id = ""]
RawNaN == [RawA EXCEPT !.place_id = "n", !.lng = JsNaNStr]
RawPrim == [RawBlank EXCEPT !.obj = FALSE]
RawPool == {RawA, RawB, RawOut, RawNoId, RawNaN, RawPrim}

\* The JSON bodies of a places response or of a cached one, and a body that is no JSON.
PlacesPayloads ==
    {Payload("null", FALSE, <<>>), Payload("primitive", FALSE, <<>>),
     Payload("object", FALSE, <<>>)}
    \cup {Payload("object", TRUE, rs) : rs \in SeqsUpTo(RawPool, MaxRaw)}
NotJson == [kind |-> "not_json", hasResults |-> FALSE, results |-> <<>>]
PlacesBodies == PlacesPayloads \cup {NotJson}
\* what a response that is not ok carries: an error object, or no JSON
ErrorBodies == {Payload("object", FALSE, <<>>), NotJson}

\* The cache API as fetchPlacesCached finds it, and the localStorage entry of the meta.
CacheEnvs == {"unsupported", "open_throws", "miss", "hit"}
CacheMetas == {"none", "unparsable", "not_object", "other_url", "old", "recent"}

\* readPlacesCacheMeta(): "null", or the entry
readPlacesCacheMeta(raw) ==
    IF raw \in {"none", "unparsable", "not_object"} THEN "null" ELSE raw

\* What the read of the freshness record gave, as the event records it.
metaRead(meta) ==
    IF meta = "null" THEN "readPlacesCacheMeta:null" ELSE "readPlacesCacheMeta:record"

\* const isFresh = !!(meta && meta.url === requestUrl && meta.ts && now - meta.ts < MAX_AGE)
isFresh(meta) == meta = "recent"

\* What loadToggleConfig() resolves to in a places load.
ToggleConfigs == {NoConfig, SampleConfig}

\* rebuildInsightsFromToggleConfig, tabulated over these configurations.
ToggleInsights == [cfg \in ToggleConfigs |-> rebuildInsightsFromToggleConfig(cfg)]

IdleRefresh == [pc |-> "idle", attempt |-> 0, sent |-> 0]

\* init() before it calls loadRealPlacesAndBootstrapUI.
BootStart ==
    [pc |-> "start",
     path |-> "",            \* "cached": inside fetchPlacesCached's try; "fallback": after it
     attempt |-> 0,          \* fetchWithRetry's loop variable
     sent |-> 0,             \* requests the load has sent
     source |-> "",
     payload |-> <<>>,       \* <<payload>> once fetchPlacesCached returned one
     valid |-> "",           \* validation.valid: "", "valid" or "invalid"
     filtered |-> NULLISH,   \* validation.filtered
     warned |-> NULLISH,     \* the count the loader's console.warn printed
     notified |-> FALSE,     \* showToast was called
     rendered |-> FALSE,     \* init() reached render()
     failure |-> "",         \* what init() rejected with
     stored |-> FALSE,       \* cache.put and writePlacesCacheMeta ran
     refresh |-> IdleRefresh]

NothingShown == [base |-> "none", list |-> <<>>, heat |-> <<>>, timer |-> FALSE]

\* The rest of loadRealPlacesAndBootstrapUI once fetchPlacesCached returned, up to its
\* await of loadToggleConfig; on an invalid payload it returns, and init() goes on to
\* render().  b is the boot record so far, log the effects so far.
LoaderContinues(payload, source, b, log) ==
    LET v == validateAPIResponse(payload)
        got == [b EXCEPT !.source = source, !.payload = <<payload>>,
                         !.attempt = 0, !.path = ""]
    IN IF ~v.valid
       THEN /\ DATA' = <<>>
            /\ boot' = [got EXCEPT !.pc = "done", !.valid = "invalid",
                                   !.notified = TRUE, !.rendered = TRUE]
            /\ ev' = [op |-> "loadRealPlacesAndBootstrapUI", arg |-> source,
                      effects |-> log \o <<"console.error", "showToast:error",
                                           "syncTopChipLabels", "render">>]
            /\ shown' = display(<<>>, INSIGHTS, state, FALSE)
            /\ UNCHANGED <<INSIGHTS, state, SELECTED_ID, calls>>
       ELSE /\ DATA' = placesFromRaw(v.results)
            /\ state' = [state EXCEPT !.district = T_all]
            /\ boot' = [got EXCEPT !.pc = "config", !.valid = "valid",
                                   !.filtered = v.filtered,
                                   !.warned = IF v.filtered > 0 THEN v.filtered
                                              ELSE NULLISH]
            /\ ev' = [op |-> "loadRealPlacesAndBootstrapUI", arg |-> source,
                      effects |-> log \o (IF v.filtered > 0 THEN <<"console.warn">>
                                          ELSE <<>>) \o <<"fetch:toggle_config">>]
            /\ UNCHANGED <<INSIGHTS, SELECTED_ID, calls, shown>>

\* fetchPlacesCached's catch block, or the absence of the cache API: the direct fetch.
FallbackFetch(b, log) ==
    /\ boot' = [b EXCEPT !.pc = "fetch", !.path = "fallback", !.attempt = 0,
                         !.sent = b.sent + 1]
    /\ ev' = [op |-> "fetchPlacesCached", arg |-> "", effects |-> log \o <<"fetch">>]
    /\ UNCHANGED <<DATA, INSIGHTS, state, SELECTED_ID, calls, shown>>

\* loadRealPlacesAndBootstrapUI rejected, and so did init(): the DOMContentLoaded
\* handler's catch logs the error.
InitRejected(b, failure) ==
    /\ boot' = [b EXCEPT !.pc = "rejected", !.path = "", !.attempt = 0,
                         !.failure = failure]
    /\ ev' = [op |-> "init:catch", arg |-> failure, effects |-> <<"console.error">>]
    /\ UNCHANGED <<DATA, INSIGHTS, state, SELECTED_ID, calls, shown>>

\* fetchWithRetry threw, or the body did not parse.
LoadThrows(b, failure) ==
    IF b.path = "cached" THEN FallbackFetch(b, <<"console.error">>)
    ELSE InitRejected(b, failure)

\* init() up to the first await of fetchPlacesCached that does not settle at once.
LoadStart(env, rawMeta) ==
    LET meta == readPlacesCacheMeta(rawMeta)
        fresh == isFresh(meta)
        stale == env = "hit" /\ ~fresh
        \* the background refresh sends its first request before the cached body is read
        b == IF stale
             THEN [boot EXCEPT !.refresh = [pc |-> "fetch", attempt |-> 0, sent |-> 1]]
             ELSE boot
        read == <<metaRead(meta)>>
        log == read \o (IF stale THEN <<"fetch:refresh">> ELSE <<>>)
    IN /\ boot.pc = "start"
       /\ CASE env = "unsupported" -> FallbackFetch(boot, read)
            [] env = "open_throws" -> FallbackFetch(boot, read \o <<"console.error">>)
            [] env = "miss" ->
                  /\ boot' = [boot EXCEPT !.pc = "fetch", !.path = "cached",
                                          !.sent = boot.sent + 1]
                  /\ ev' = [op |-> "fetchPlacesCached", arg |-> "",
                            effects |-> read \o <<"fetch">>]
                  /\ UNCHANGED <<DATA, INSIGHTS, state, SELECTED_ID, calls, shown>>
            [] OTHER ->
                  \E cached \in PlacesBodies :
                      IF cached = NotJson
                      THEN FallbackFetch(b, log \o <<"console.error">>)
                      ELSE LoaderContinues(cached,
                                           IF fresh THEN "cache_fresh" ELSE "cache_stale",
                                           b, log)

\* The fetch of the load settles with `outcome`: one pass of fetchWithRetry's loop and,
\* when it returns or throws, the rest of fetchPlacesCached and of the loader.  `put`
\* tells whether cache.put throws, body is what net.json() finds.
PlacesFetchSettles(outcome) ==
    LET step == retryStep(boot.attempt, outcome, MaxRetries)
    IN /\ boot.pc = "fetch"
       /\ CASE step = "wait" ->
                  /\ boot' = [boot EXCEPT !.pc = "backoff"]
                  /\ ev' = [op |-> "fetchWithRetry", arg |-> "places",
                            effects |-> <<"console.warn", "setTimeout">>]
                  /\ UNCHANGED <<DATA, INSIGHTS, state, SELECTED_ID, calls, shown>>
            [] step = "exhausted" -> LoadThrows(boot, "network")
            [] OTHER ->
                  \E put \in {"stored", "throws"},
                     body \in (IF outcome = "ok" THEN PlacesBodies ELSE ErrorBodies) :
                      IF boot.path = "cached"
                      THEN IF outcome = "ok" /\ put = "throws"
                           THEN LoadThrows(boot, "cache")
                           ELSE LET b == IF outcome = "ok"
                                         THEN [boot EXCEPT !.stored = TRUE]
                                         ELSE boot
                                IN IF body = NotJson THEN LoadThrows(b, "body")
                                   ELSE LoaderContinues(body, "network", b, <<>>)
                      ELSE IF body = NotJson THEN LoadThrows(boot, "body")
                           ELSE LoaderContinues(body, "network_nocache", boot, <<>>)

\* The wait of the load's fetchWithRetry is over: the loop goes round again or ends,
\* and then fetchWithRetry throws.
PlacesBackoffElapsed ==
    /\ boot.pc = "backoff"
    /\ IF loopContinues(boot.attempt, MaxRetries)
       THEN /\ boot' = [boot EXCEPT !.pc = "fetch", !.attempt = boot.attempt + 1,
                                    !.sent = boot.sent + 1]
            /\ ev' = [op |-> "fetchWithRetry", arg |-> "places", effects |-> <<"fetch">>]
            /\ UNCHANGED <<DATA, INSIGHTS, state, SELECTED_ID, calls, shown>>
       ELSE LoadThrows(boot, "max_retries")

\* loadToggleConfig() settles: the rest of the loader, and of init() up to render().
ConfigSettles(cfg) ==
    /\ boot.pc = "config"
    /\ INSIGHTS' = ToggleInsights[cfg]
    /\ boot' = [boot EXCEPT !.pc = "done", !.rendered = TRUE]
    /\ ev' = [op |-> "loadRealPlacesAndBootstrapUI",
              arg |-> IF cfg.present THEN "config" ELSE "null",
              effects |-> (IF cfg.present THEN <<>> ELSE <<"console.warn">>)
                          \o <<"ga:places_loaded", "syncTopChipLabels", "render">>]
    /\ shown' = display(DATA, INSIGHTS', state, FALSE)
    /\ UNCHANGED <<DATA, state, SELECTED_ID, calls>>

\* the refresh storing whatever response it got
refreshStores_anyResponse(outcome) == TRUE

\* if (net.ok) in the background refresh
refreshStores(outcome) == outcome = "ok"

\* The background refresh's fetch settles: one pass of its fetchWithRetry and, when it
\* returns or throws, the rest of the refresh.  The event's arg is the outcome of the
\* fetch.
RefreshFetchSettles(outcome, put) ==
    LET r == boot.refresh
        step == retryStep(r.attempt, outcome, MaxRetries)
    IN /\ r.pc = "fetch"
       /\ CASE step = "wait" ->
                  /\ boot' = [boot EXCEPT !.refresh.pc = "backoff"]
                  /\ ev' = [op |-> "fetchWithRetry", arg |-> "refresh",
                            effects |-> <<"console.warn", "setTimeout">>]
            [] step = "return" /\ refreshStores(outcome) /\ put = "stored" ->
                  /\ boot' = [boot EXCEPT !.refresh.pc = "done", !.stored = TRUE]
                  /\ ev' = [op |-> "refresh", arg |-> outcome,
                            effects |-> <<"cache.put", "writePlacesCacheMeta">>]
            [] step = "return" /\ ~refreshStores(outcome) ->
                  /\ boot' = [boot EXCEPT !.refresh.pc = "done"]
                  /\ ev' = [op |-> "refresh", arg |-> outcome, effects |-> <<>>]
            [] OTHER ->
                  /\ boot' = [boot EXCEPT !.refresh.pc = "done"]
                  /\ ev' = [op |-> "refresh:catch", arg |-> outcome,
                            effects |-> <<"console.error">>]
       /\ UNCHANGED <<DATA, INSIGHTS, state, SELECTED_ID, calls, shown>>

\* The wait of the refresh's fetchWithRetry is over.
RefreshBackoffElapsed ==
    LET r == boot.refresh
    IN /\ r.pc = "backoff"
       /\ IF loopContinues(r.attempt, MaxRetries)
          THEN /\ boot' = [boot EXCEPT !.refresh.pc = "fetch",
                                       !.refresh.attempt = r.attempt + 1,
                                       !.refresh.sent = r.sent + 1]
               /\ ev' = [op |-> "fetchWithRetry", arg |-> "refresh",
                         effects |-> <<"fetch">>]
          ELSE /\ boot' = [boot EXCEPT !.refresh.pc = "done"]
               /\ ev' = [op |-> "refresh:catch", arg |-> "",
                         effects |-> <<"console.error">>]
       /\ UNCHANGED <<DATA, INSIGHTS, state, SELECTED_ID, calls, shown>>

InitLoad ==
    /\ DATA = <<>>
    /\ INSIGHTS = <<InsightAll>>
    /\ state = InitialState
    /\ SELECTED_ID = NullId
    /\ calls = [c \in 1..MaxCalls |-> FreeCall]
    /\ ev = [op |-> "DOMContentLoaded", arg |-> "", effects |-> <<>>]
    /\ shown = NothingShown
    /\ boot = BootStart

NextLoad ==
    \/ \E env \in CacheEnvs, rawMeta \in CacheMetas : LoadStart(env, rawMeta)
    \/ \E outcome \in Outcomes : PlacesFetchSettles(outcome)
    \/ PlacesBackoffElapsed
    \/ \E cfg \in ToggleConfigs : ConfigSettles(cfg)
    \/ \E outcome \in Outcomes, put \in {"stored", "throws"} :
          RefreshFetchSettles(outcome, put)
    \/ RefreshBackoffElapsed

SpecLoad == InitLoad /\ [][NextLoad]_vars

-----------------------------------------------------------------------------
(* Claims about the places load *)

\* The raw results of the payload the loader was given.
LoadedRaw == boot.payload[1].results

\* C8's condition on one raw result: an identity field, and finite coordinates within
\* -90..90 and -180..180, bounds included.
C8_Accepted(p) ==
    /\ p.obj
    /\ (Truthy(p.place_id) \/ Truthy(p.id) \/ Truthy(p.gid))
    /\ LET lat == ToNumber(Coalesce(p.lat, p.latitude))
           lng == ToNumber(Coalesce(p.lng, p.longitude))
       IN /\ ~lat.nan /\ ~lng.nan
          /\ -900000 <= lat.n /\ lat.n <= 900000
          /\ -1800000 <= lng.n /\ lng.n <= 1800000

\* C8, the dataset: after a load with a well-formed response DATA holds exactly the
\* accepted raw results, in their original order, whatever the other results are; a
\* result at lat=90, lng=180 is among them, one at lat=90.0001 is not.
C8_DatasetExact ==
    boot.valid = "valid" =>
        /\ DATA = placesFromRaw(
                     SeqFilter(LoadedRaw,
                               {i \in 1..Len(LoadedRaw) : C8_Accepted(LoadedRaw[i])}))
        /\ (RawB \in Range(LoadedRaw) => placeFromRaw(RawB) \in Range(DATA))
        /\ placeFromRaw(RawOut) \notin Range(DATA)

\* C8, the count where there is one: a filtered count the validation returns, and the
\* count the loader's warning prints, equal the number of raw results dropped.
C8_CountWhereGiven ==
    boot.valid = "valid" =>
        /\ (boot.filtered # NULLISH => boot.filtered = Len(LoadedRaw) - Len(DATA))
        /\ (boot.warned # NULLISH => boot.warned = Len(LoadedRaw) - Len(DATA))
        /\ (Len(LoadedRaw) - Len(DATA) > 0 => boot.warned # NULLISH)

\* C8 as stated: after a load with a well-formed response DATA holds exactly the
\* accepted raw results in their original order, and the reported filtered count
\* equals the number of raw results dropped.
C8_LoadExactWithCount ==
    /\ C8_DatasetExact
    /\ (boot.valid = "valid" => boot.filtered = Len(LoadedRaw) - Len(DATA))

\* C8's case: a load whose response held an accepted result, a rejected one and the
\* boundary one, in that order.
C8_Witness ==
    /\ boot.valid = "valid"
    /\ LoadedRaw = <<RawA, RawOut, RawB>>
    /\ Len(DATA) = 2
    /\ boot.filtered = 1

C9_Malformed(p) == p.kind # "object" \/ ~p.hasResults

\* C9: a payload that is no object, or that has no results array, is invalid for
\* validateAPIResponse; the loader given one calls showToast, leaves DATA empty, and
\* init() goes on to render() the empty dataset and does not reject.
C9_MalformedPayloadReported ==
    /\ \A p \in PlacesPayloads : C9_Malformed(p) => ~validateAPIResponse(p).valid
    /\ (boot.payload # <<>> /\ C9_Malformed(boot.payload[1])) =>
          /\ boot.valid = "invalid"
          /\ boot.notified
          /\ DATA = <<>>
          /\ boot.pc = "done" /\ boot.failure = ""
          /\ boot.rendered
          /\ shown.base = "DATA" /\ shown.list = <<>>
          /\ (ev.op = "loadRealPlacesAndBootstrapUI" =>
                Before(ev.effects, "showToast:error", "render"))

\* C9's case: the network answered with an object that has no results array.
C9_Witness ==
    /\ boot.payload = <<Payload("object", FALSE, <<>>)>>
    /\ boot.source = "network"
    /\ boot.pc = "done"
    /\ "showToast:error" \in Range(ev.effects)

\* C10 as stated: when the load fails with a network error and the cache gave nothing,
\* the user is notified and init() still reaches render(), with an empty dataset.
C10_TransportFailureSurfaced ==
    boot.failure = "network" => (boot.notified /\ boot.rendered /\ DATA = <<>>)

\* C10's case: the cache held nothing, every request of the load met a network error,
\* and init() rejected.
C10_Witness ==
    /\ boot.pc = "rejected"
    /\ boot.failure = "network"
    /\ boot.sent = 2 * MaxRetries
    /\ ~boot.notified /\ ~boot.rendered

\* C11 as stated: after a places load no two records of DATA have the same id.
C11_UniqueIds ==
    boot.valid = "valid" =>
        \A i, j \in 1..Len(DATA) : i # j => DATA[i].id # DATA[j].id

\* C11's case: a load whose response named the same place twice.
C11_Witness ==
    /\ boot.valid = "valid"
    /\ LoadedRaw = <<RawA, RawB, RawA>>
    /\ Len(DATA) = 3

-----------------------------------------------------------------------------
(* Claims about the dataset and the insight rules *)

-----------------------------------------------------------------------------
(* The insight rules at work: configurations, the active insight, the heat layer *)

\* Rule texts of toggle_config.json: predicates of the four shapes, predicates of
\* none, and heat rules.
\* r >= 4.1 && v >= 30 && v <= 180 && s !== 'salbi'
T_discover ==
    <<"r", " ", ">", "=", " ", "4", ".", "1", " ", "&", "&", " ", "v", " ", ">", "=",
      " ", "3", "0", " ", "&", "&", " ", "v", " ", "<", "=", " ", "1", "8", "0", " ",
      "&", "&", " ", "s", " ", "!", "=", "=", " ", "'", "s", "a", "l", "b", "i", "'">>
\* return r>=4.1&&v>=30&&v<=180&&s!=="salbi";
T_discoverTight ==
    <<"r", "e", "t", "u", "r", "n", " ", "r", ">", "=", "4", ".", "1", "&", "&", "v",
      ">", "=", "3", "0", "&", "&", "v", "<", "=", "1", "8", "0", "&", "&", "s", "!",
      "=", "=", "\"", "s", "a", "l", "b", "i", "\"", ";">>
\* r >= 4.3 && v >= 150
T_topRated ==
    <<"r", " ", ">", "=", " ", "4", ".", "3", " ", "&", "&", " ", "v", " ", ">", "=",
      " ", "1", "5", "0">>
\* const q = 'aB'
T_raqi ==
    <<"c", "o", "n", "s", "t", " ", "q", " ", "=", " ", "'", "a", "B", "'">>
\* r >= 4.1 && v >= 30 && v <= 180
T_rangeNoSentiment ==
    <<"r", " ", ">", "=", " ", "4", ".", "1", " ", "&", "&", " ", "v", " ", ">", "=",
      " ", "3", "0", " ", "&", "&", " ", "v", " ", "<", "=", " ", "1", "8", "0">>
\* return p.rating > 4;
T_ratingOnly ==
    <<"r", "e", "t", "u", "r", "n", " ", "p", ".", "r", "a", "t", "i", "n", "g", " ",
      ">", " ", "4", ";">>
\* x
T_noShape ==
    <<"x">>
\* return (p.bayes2_score ?? 0.50);
T_heatTrust ==
    <<"r", "e", "t", "u", "r", "n", " ", "(", "p", ".", "b", "a", "y", "e", "s", "2",
      "_", "s", "c", "o", "r", "e", " ", "?", "?", " ", "0", ".", "5", "0", ")", ";">>
\* return (p.rating ?? 0);
T_heatRating ==
    <<"r", "e", "t", "u", "r", "n", " ", "(", "p", ".", "r", "a", "t", "i", "n", "g",
      " ", "?", "?", " ", "0", ")", ";">>
\* return p.randomField
T_heatRandom ==
    <<"r", "e", "t", "u", "r", "n", " ", "p", ".", "r", "a", "n", "d", "o", "m", "F",
      "i", "e", "l", "d">>
\* return (p.lat ?? 0);
T_heatLat ==
    <<"r", "e", "t", "u", "r", "n", " ", "(", "p", ".", "l", "a", "t", " ", "?", "?",
      " ", "0", ")", ";">>
\* return (p.rating ?? 0) / 5;
T_heatScaled ==
    <<"r", "e", "t", "u", "r", "n", " ", "(", "p", ".", "r", "a", "t", "i", "n", "g",
      " ", "?", "?", " ", "0", ")", " ", "/", " ", "5", ";">>

\* The places the rules are tried on: ratings and counts on both sides of the
\* thresholds, trust scores that tie, and trust scores outside [0, 1].
RuleRawLow ==
    [RawBlank EXCEPT !.place_id = "a", !.lat = JsNum(247000), !.lng = JsNum(467000),
        !.name = T_Ab, !.sentiment_label_ar = AR_NEUTRAL,
        !.rating = 41, !.rating_count = 30, !.bayes2_score = 50]
RuleRawHigh ==
    [RawBlank EXCEPT !.place_id = "b", !.lat = JsNum(248000), !.lng = JsNum(468000),
        !.name = T_cd, !.sentiment_label_ar = AR_POSITIVE,
        !.rating = 41, !.rating_count = 180, !.bayes2_score = 50]
RuleRawOver ==
    [RawBlank EXCEPT !.place_id = "c", !.lat = JsNum(249000), !.lng = JsNum(469000),
        !.name = T_cd, !.tags = <<T_Ab>>, !.sentiment_label_ar = AR_POSITIVE,
        !.rating = 43, !.rating_count = 181, !.bayes2_score = 150]
RuleRawNegative ==
    [RawBlank EXCEPT !.place_id = "d", !.lat = JsNum(250000), !.lng = JsNum(470000),
        !.name = T_cd, !.sentiment_label_ar = AR_NEGATIVE,
        !.rating = 45, !.rating_count = 150, !.bayes2_score = 50]
RuleRawBare ==
    [RawBlank EXCEPT !.place_id = "e", !.lat = JsNum(251000), !.lng = JsNum(471000),
        !.rating_count = 600, !.bayes2_score = -20]
RuleRawEmpty ==
    [RawBlank EXCEPT !.place_id = "f", !.lat = JsNum(252000), !.lng = JsNum(472000)]
RuleRaw ==
    <<RuleRawLow, RuleRawHigh, RuleRawOver, RuleRawNegative, RuleRawBare, RuleRawEmpty>>

\* The configuration documents toggle_config.json may hold.
FullConfig ==
    ConfigDocument(
        <<ConfigEntry("raqi", T_raqi, SortSpec("asc", "rating_count"), Undefined),
          ConfigEntry("top_rated", T_topRated, SortSpec("desc", "rating"), T_heatRating),
          ConfigEntry("discover", T_discover, MissingSort, Undefined),
          ConfigEntry("must_go", T_mustGoRule, SortSpec("special:mustgo", ""),
                      T_heatTrust)>>)
OneRule(predicate, sort, heat) ==
    ConfigDocument(<<ConfigEntry("must_go", predicate, sort, heat)>>)
RuleConfigs ==
    {NoConfig, ConfigDocument(<<>>), FullConfig,
     OneRule(Undefined, MissingSort, Undefined),
     OneRule(T_returnTrue, SortSpec("popular", ""), T_heatRating),
     OneRule(T_discoverTight, MissingSort, T_heatScaled),
     OneRule(T_rangeNoSentiment, MissingSort, T_heatRandom),
     OneRule(T_ratingOnly, SortSpec("desc", "rating"), T_heatLat),
     OneRule(T_noShape, SortSpec("asc", "rating"), T_noShape)}

HeatmapOptions == {"Off", "Density", "Score"}

\* The rules of the longest INSIGHTS a configuration of RuleConfigs yields.
MaxInsights == 1 + Len(FullConfig.entries)

\* The loader has filled DATA and awaits loadToggleConfig().
InitRules ==
    /\ DATA = placesFromRaw(RuleRaw)
    /\ INSIGHTS = <<InsightAll>>
    /\ state = InitialState
    /\ SELECTED_ID = NullId
    /\ calls = [c \in 1..MaxCalls |-> FreeCall]
    /\ ev = [op |-> "init", arg |-> "", effects |-> <<>>]
    /\ shown = NothingShown
    /\ boot = [pc |-> "config", config |-> NoConfig]

\* loadToggleConfig() settles with cfg, kept in TOGGLE_CONFIG: the rest of the loader,
\* and of init() up to render().
RulesConfigSettles(cfg) ==
    /\ boot.pc = "config"
    /\ INSIGHTS' = rebuildInsightsFromToggleConfig(cfg)
    /\ boot' = [pc |-> "done", config |-> cfg]
    /\ ev' = [op |-> "loadRealPlacesAndBootstrapUI",
              arg |-> IF cfg.present THEN "config" ELSE "null",
              effects |-> (IF cfg.present THEN <<>> ELSE <<"console.warn">>)
                          \o <<"ga:places_loaded", "syncTopChipLabels", "render">>]
    /\ shown' = display(DATA, INSIGHTS', state, FALSE)
    /\ UNCHANGED <<DATA, state, SELECTED_ID, calls>>

\* A click on the n-th option of the insight menu, which the loader has built.
RulesInsightPick(n) ==
    /\ boot.pc = "done"
    /\ n \in 1..Len(INSIGHTS)
    /\ InsightPick(INSIGHTS[n].key)

\* A click on an option of the heatmap menu.
HeatmapPick(v) ==
    /\ boot.pc = "done"
    /\ Apply([state EXCEPT !.heatmap = v], "heatmap:pick", <<"ga:heatmap_change">>)
    /\ UNCHANGED <<INSIGHTS, calls, boot>>

NextRules ==
    \/ \E cfg \in RuleConfigs : RulesConfigSettles(cfg)
    \/ \E n \in 1..MaxInsights : RulesInsightPick(n)
    \/ \E v \in HeatmapOptions : HeatmapPick(v)

SpecRules == InitRules /\ [][NextRules]_vars

-----------------------------------------------------------------------------
(* Claims about the insight rules *)

\* Every record of DATA is in the list that is shown, once.
EveryRecordShown ==
    /\ shown.base = "DATA"
    /\ Len(shown.list) = Len(DATA)
    /\ \A i \in 1..Len(DATA) : Count(shown.list, DATA[i]) = Count(DATA, DATA[i])

\* C13: whatever loadToggleConfig() resolved to, INSIGHTS is not empty and its first
\* rule has the key 'all' and a predicate that is true of every record; when the
\* configuration is absent INSIGHTS holds that rule alone, and the pipeline, whose
\* active key is 'must_go' unless the user picked another, finds no rule of that key,
\* falls back to the first rule and shows every record.
C13_AllRuleFirst ==
    /\ INSIGHTS # <<>>
    /\ INSIGHTS[1].key = "all"
    /\ \A i \in 1..Len(DATA) : applyPredicate(INSIGHTS[1].predicate, DATA[i])
    /\ (boot.pc = "done" /\ ~boot.config.present) =>
          /\ Len(INSIGHTS) = 1
          /\ insightFor(INSIGHTS, state.insight) = INSIGHTS[1]
          /\ EveryRecordShown

\* The configuration was absent, the active key is still 'must_go', and the records
\* are all shown.
C13_Witness ==
    /\ boot.pc = "done"
    /\ ~boot.config.present
    /\ state.insight = "must_go"
    /\ Len(DATA) > 1
    /\ EveryRecordShown

\* The rule INSIGHTS holds for an entry of the configuration.
entryRule(e) == insightFor(INSIGHTS, e.key)

\* The regular expressions of the four shapes compilePredicate recognizes.
PredicatePatterns == {discoverPattern, mustGoPattern, topRatedPattern, raqiPattern}

\* C14: compilePredicate returns a predicate for every rule text, so that INSIGHTS
\* holds a rule for every entry of the configuration, and for a text that matches none
\* of the four recognized shapes the predicate is true of every record: when that rule
\* is the active one every record is shown.
C14_UnrecognizedFailsOpen ==
    boot.pc = "done" =>
        /\ Len(INSIGHTS) = 1 + Len(boot.config.entries)
        /\ \A n \in 1..Len(boot.config.entries) :
              LET e == boot.config.entries[n]
              IN (/\ TruthyT(e.predicate)
                  /\ \A pat \in PredicatePatterns : match(trim(e.predicate), pat) = <<>>)
                 => /\ \A i \in 1..Len(DATA) :
                          applyPredicate(entryRule(e).predicate, DATA[i])
                    /\ state.insight = e.key => EveryRecordShown

\* The active rule's text, return p.rating > 4;, has none of the four shapes, and the
\* list shows every record, those rated 4 or less among them.
C14_Witness ==
    /\ boot.pc = "done"
    /\ boot.config = OneRule(T_ratingOnly, SortSpec("desc", "rating"), T_heatLat)
    /\ state.insight = "must_go"
    /\ EveryRecordShown
    /\ \E i \in 1..Len(shown.list) : shown.list[i].rating <= 40

RECURSIVE strip(_)
\* a text without its spaces
strip(t) ==
    IF t = <<>> THEN <<>>
    ELSE IF t[1] = " " THEN strip(Tail(t))
    ELSE <<t[1]>> \o strip(Tail(t))

\* Is the rule text the read of a field with a default, return (p.F ?? D) with or
\* without a semicolon, and nothing else?
IsFieldRead(t) ==
    LET m == match(trim(t), heatPattern)
        whole == <<"r", "e", "t", "u", "r", "n", "(", "p", ".">> \o m[1][1]
                    \o <<"?", "?">> \o m[1][2] \o <<")">>
    IN m # <<>> /\ strip(t) \in {whole, whole \o <<";">>}

\* Is the field the rule text reads one of the whitelist?
ReadsAllowedField(t) ==
    LET m == match(trim(t), heatPattern)
    IN m # <<>> /\ \E f \in DOMAIN AllowedFieldSpelling : AllowedFieldSpelling[f] = m[1][1]

\* C15: compileHeat returns a weight function for every heat rule text, and for a text
\* that is not the read of a field with a default, or that reads a field outside the
\* whitelist, the function yields 0 for every record: the heat layer of that rule
\* holds weights of 0 only.
C15_HeatFailsClosed ==
    boot.pc = "done" =>
        \A n \in 1..Len(boot.config.entries) :
            LET e == boot.config.entries[n]
            IN (TruthyT(e.heat) /\ ~(IsFieldRead(e.heat) /\ ReadsAllowedField(e.heat)))
               => /\ entryRule(e).heatFn.shape # "null"
                  /\ \A i \in 1..Len(DATA) : applyHeat(entryRule(e).heatFn, DATA[i]) = 0
                  /\ (state.insight = e.key /\ state.heatmap # "Off")
                        => \A k \in 1..Len(shown.heat) : shown.heat[k].weight = 0

\* The active rule's heat text is return p.randomField, the heatmap is on, and the heat
\* layer holds a point of weight 0 for a record whose default weight is not 0.
C15_Witness ==
    /\ boot.pc = "done"
    /\ boot.config = OneRule(T_rangeNoSentiment, MissingSort, T_heatRandom)
    /\ state.insight = "must_go"
    /\ state.heatmap # "Off"
    /\ \E k \in 1..Len(shown.heat) :
          /\ shown.heat[k].weight = 0
          /\ \E i \in 1..Len(DATA) :
                DATA[i].id = shown.heat[k].id /\ defaultWeight(DATA[i]) > 0

\* A lower and an upper bound on the review count in a rule text: v >= N and v <= N.
lowerBoundPattern == <<"v">> \o RE_GE \o <<RE_INT>>
upperBoundPattern == <<"v", RE_WS, "<", "=", RE_WS, RE_INT>>
HasBothBounds(t) ==
    match(t, lowerBoundPattern) # <<>> /\ match(t, upperBoundPattern) # <<>>

\* C16: a rule text that holds both a lower and an upper bound on the review count is
\* compiled to the range-capped predicate, never to the rating threshold, so that the
\* list of that rule shows no record whose review count is above the upper bound.
C16_BothBoundsRangeCapped ==
    boot.pc = "done" =>
        \A n \in 1..Len(boot.config.entries) :
            LET e == boot.config.entries[n]
                upper == parseInt(match(e.predicate, upperBoundPattern)[1][1])
            IN (TruthyT(e.predicate) /\ HasBothBounds(e.predicate))
               => /\ entryRule(e).predicate.shape = "discover"
                  /\ entryRule(e).predicate.maxReviews = upper
                  /\ state.insight = e.key
                        => \A k \in 1..Len(shown.list) : shown.list[k].rating_count <= upper

\* The active rule's text has both bounds and the sentiment clause: the list shows the
\* record with 180 reviews and not the one with 181, whose rating is high enough.
C16_Witness ==
    /\ boot.pc = "done"
    /\ boot.config = FullConfig
    /\ state.insight = "discover"
    /\ \E k \in 1..Len(shown.list) : shown.list[k].rating_count = 180
    /\ \E i \in 1..Len(DATA) :
          /\ DATA[i].rating_count = 181
          /\ DATA[i].rating >= 41
          /\ \A k \in 1..Len(shown.list) : shown.list[k] # DATA[i]

\* The closed forms of the four shapes: ratings in tenths, trust scores in hundredths.
RangeCapped(R1, V1, V2, S) == [form |-> "range", R |-> R1, B |-> 0, V1 |-> V1, V2 |-> V2,
                               S |-> S, term |-> <<>>]
TrustThreshold(B, V, S) == [form |-> "trust", R |-> 0, B |-> B, V1 |-> V, V2 |-> 0,
                            S |-> S, term |-> <<>>]
RatingThreshold(R, V) == [form |-> "rating", R |-> R, B |-> 0, V1 |-> V, V2 |-> 0,
                          S |-> "", term |-> <<>>]
TextContainment(term) == [form |-> "text", R |-> 0, B |-> 0, V1 |-> 0, V2 |-> 0,
                          S |-> "", term |-> term]

\* The rule texts of a recognized shape, and what each says.
RecognizedTexts == {T_discover, T_discoverTight, T_mustGoRule, T_topRated, T_raqi}
MeaningOf(t) ==
    CASE t \in {T_discover, T_discoverTight} -> RangeCapped(41, 30, 180, AR_NEGATIVE)
      [] t = T_mustGoRule -> TrustThreshold(50, 50, AR_NEGATIVE)
      [] t = T_topRated -> RatingThreshold(43, 150)
      [] OTHER -> TextContainment(<<"a", "B">>)

\* Does text t occur in text h?
Occurs(t, h) == \E i \in 0..(Len(h) - Len(t)) : SubSeq(h, i + 1, i + Len(t)) = t

\* Is the closed form true of record p?
ClosedForm(x, p) ==
    CASE x.form = "range" ->
            /\ p.rating >= x.R
            /\ x.V1 <= p.rating_count /\ p.rating_count <= x.V2
            /\ p.sentiment # x.S
      [] x.form = "trust" ->
            p.trust >= x.B /\ p.rating_count >= x.V1 /\ p.sentiment # x.S
      [] x.form = "rating" -> p.rating >= x.R /\ p.rating_count >= x.V1
      [] OTHER ->
            Occurs(toLowerCase(x.term),
                   toLowerCase(p.name \o <<" ">> \o join(p.tags, <<" ">>) \o <<" ">>
                                  \o p.category \o <<" ">> \o p.district))

\* C17: for a rule text of a recognized shape the compiled predicate is true of a
\* record exactly when the shape's closed form is, thresholds included, and the list
\* of that rule holds the records of DATA of which the closed form is true, and no
\* others.
C17_ClosedForms ==
    boot.pc = "done" =>
        \A n \in 1..Len(boot.config.entries) :
            LET e == boot.config.entries[n]
            IN e.predicate \in RecognizedTexts
               => /\ \A i \in 1..Len(DATA) :
                        applyPredicate(entryRule(e).predicate, DATA[i])
                            <=> ClosedForm(MeaningOf(e.predicate), DATA[i])
                  /\ state.insight = e.key
                        => \A i \in 1..Len(DATA) :
                              Count(shown.list, DATA[i])
                                  = IF ClosedForm(MeaningOf(e.predicate), DATA[i])
                                    THEN 1 ELSE 0

\* The rating-threshold rule is active: the list holds a record rated exactly 4.3, one
\* with exactly 150 reviews, and none rated 4.1.
C17_Witness ==
    /\ boot.pc = "done"
    /\ boot.config = FullConfig
    /\ state.insight = "top_rated"
    /\ \E k \in 1..Len(shown.list) : shown.list[k].rating = 43
    /\ \E k \in 1..Len(shown.list) : shown.list[k].rating_count = 150
    /\ \A k \in 1..Len(shown.list) : shown.list[k].rating # 41
    /\ \E i \in 1..Len(DATA) : DATA[i].rating = 41 /\ DATA[i].rating_count >= 150

\* C18: every weight handed to the heat layer lies in [0, 1], whether the active rule
\* has a compiled heat function or not, and whatever the record's trust score, rating
\* and review count are.  Weights are in hundred-thousandths.
C18_WeightInUnitInterval ==
    \A k \in 1..Len(shown.heat) :
        shown.heat[k].weight >= 0 /\ shown.heat[k].weight <= 100000

\* The active rule has no heat function and the heatmap is on: the layer holds points
\* for a record with a negative trust score and for one with a trust score above 1,
\* with weights in [0, 1].
C18_Witness ==
    /\ state.heatmap # "Off"
    /\ insightFor(INSIGHTS, state.insight).heatFn = HeatNull
    /\ \E k \in 1..Len(shown.heat), i \in 1..Len(DATA) :
          DATA[i].id = shown.heat[k].id /\ DATA[i].trust < 0
    /\ \E k \in 1..Len(shown.heat), i \in 1..Len(DATA) :
          DATA[i].id = shown.heat[k].id /\ DATA[i].trust > 100
    /\ C18_WeightInUnitInterval

\* clamp01(0.65 * clamp01(trustScore) + 0.35 * clamp01(reviewCount / 500)), in
\* hundred-thousandths, of a record whose trust score is in hundredths.
BlendOfClampedTerms(p) ==
    LET trust == IF p.trust < 0 THEN 0 ELSE IF p.trust > 100 THEN 100 ELSE p.trust
        count == IF p.rating_count < 0 THEN 0
                 ELSE IF p.rating_count > 500 THEN 500 ELSE p.rating_count
        sum == 650 * trust + 70 * count
    IN IF sum < 0 THEN 0 ELSE IF sum > 100000 THEN 100000 ELSE sum

\* C19: when the active rule has no heat function, the weight of every point of the
\* heat layer is the blend of the record's trust score and review volume with each of
\* the two clamped to [0, 1] on its own before blending, and the sum clamped again.
C19_DefaultWeightClampsTerms ==
    insightFor(INSIGHTS, state.insight).heatFn = HeatNull =>
        \A k \in 1..Len(shown.heat) :
            \A i \in 1..Len(DATA) :
                DATA[i].id = shown.heat[k].id
                    => shown.heat[k].weight = BlendOfClampedTerms(DATA[i])

\* The active rule has no heat function and the heatmap is on: the point of a record
\* with trust score 0.5 and 180 reviews has the weight 0.451.
C19_Witness ==
    /\ state.heatmap # "Off"
    /\ insightFor(INSIGHTS, state.insight).heatFn = HeatNull
    /\ \E k \in 1..Len(shown.heat), i \in 1..Len(DATA) :
          /\ DATA[i].id = shown.heat[k].id
          /\ DATA[i].trust = 50 /\ DATA[i].rating_count = 180
          /\ shown.heat[k].weight = 45100
          /\ shown.heat[k].weight = BlendOfClampedTerms(DATA[i])

\* Is the list in the order of the default comparator: descending trust score, and
\* descending review count among equal trust scores?
TrustThenReviews(list) ==
    \A k \in 1..(Len(list) - 1) :
        \/ num(list[k], "trust") > num(list[k + 1], "trust")
        \/ /\ num(list[k], "trust") = num(list[k + 1], "trust")
           /\ num(list[k], "rating_count") >= num(list[k + 1], "rating_count")

\* C20: when the active rule is one whose configuration entry has no sort directive,
\* the list is ordered by descending trust score, and records of equal trust score by
\* descending review count.
C20_NoDirectiveDefaultOrder ==
    boot.pc = "done" =>
        \A n \in 1..Len(boot.config.entries) :
            LET e == boot.config.entries[n]
            IN (e.sort = MissingSort /\ state.insight = e.key)
               => TrustThenReviews(shown.list)

\* The active rule's entry has no sort directive; the list starts with the record of
\* the highest trust score and holds two records of equal trust score and different
\* review counts next to each other.
C20_Witness ==
    /\ boot.pc = "done"
    /\ \E n \in 1..Len(boot.config.entries) :
          boot.config.entries[n].sort = MissingSort
              /\ state.insight = boot.config.entries[n].key
    /\ Len(shown.list) > 2
    /\ \A k \in 2..Len(shown.list) : shown.list[1].trust >= shown.list[k].trust
    /\ \E k \in 1..(Len(shown.list) - 1) :
          /\ shown.list[k].trust = shown.list[k + 1].trust
          /\ shown.list[k].rating_count # shown.list[k + 1].rating_count

-----------------------------------------------------------------------------
(* Claims about the cache, the retries and the similarity session *)

\* The load's part of boot: everything but the refresh and the stored flag.
LoadPart(b) == [b EXCEPT !.refresh = IdleRefresh, !.stored = FALSE]

\* C21: on a cache hit whose freshness record is stale and whose body parses, the
\* load gets the cached payload in the step that starts it, with no request of its
\* own sent, while the refresh has sent its first; a step of the refresh stores only
\* after an ok response and changes nothing of the load: not DATA, the rules, the
\* FilterState, what is shown, nor the load's own progress; and the load never ends
\* rejected.
C21_StaleServedRefreshDetached ==
    [][/\ (boot.pc = "start" /\ boot'.refresh.pc = "fetch" /\ boot'.path # "fallback")
            => /\ boot'.source = "cache_stale"
               /\ boot'.payload # <<>>
               /\ boot'.sent = 0
               /\ boot'.pc \in {"config", "done"}
       /\ (boot.pc # "start" /\ boot'.refresh # boot.refresh)
            => /\ UNCHANGED <<DATA, INSIGHTS, state, SELECTED_ID, shown>>
               /\ LoadPart(boot') = LoadPart(boot)
               /\ (boot'.stored /\ ~boot.stored) => ev'.arg = "ok"
       /\ boot'.source = "cache_stale" => boot'.pc # "rejected" /\ boot'.sent = 0
      ]_vars

\* The stale cached places are on display, and the refresh has since given up after
\* its third request.
C21_Witness ==
    /\ boot.source = "cache_stale"
    /\ boot.pc = "done"
    /\ Len(DATA) > 0
    /\ shown.base = "DATA"
    /\ boot.refresh.pc = "done"
    /\ boot.refresh.sent = MaxRetries
    /\ ev.op = "refresh:catch"
    /\ ~boot.stored


\* C22: when readPlacesCacheMeta() returned null (the freshness record is missing,
\* unparsable or not an object) the load goes on as if nothing were cached: what it
\* gets does not come from the cache, so after its first step it has a request out and
\* no payload yet; and that step does not reject the load.
C22_NoRecordMeansNoCache ==
    [][(boot.pc = "start" /\ "readPlacesCacheMeta:null" \in Range(ev'.effects))
          => /\ boot'.source \notin {"cache_fresh", "cache_stale"}
             /\ boot'.payload = <<>>
             /\ boot'.pc = "fetch"
             /\ boot'.sent = 1
             /\ boot'.refresh = IdleRefresh]_vars

-----------------------------------------------------------------------------
(* One call of fetchWithRetry, for every maxRetries up to the callers' *)

\* The maxRetries a call is given.
RetryCounts == 0..MaxRetries

\* No call yet.
NoRetryCall ==
    [pc |-> "idle", maxRetries |-> 0, attempt |-> 0, sent |-> 0, outcomes |-> <<>>,
     lastError |-> "", result |-> ""]

\* The statements after the loop: throw lastError, or the new Error.
throwAfterLoop(c) ==
    [c EXCEPT !.pc = "thrown",
              !.result = IF c.lastError # "" THEN c.lastError
                         ELSE "Failed to fetch after maximum retries"]

\* The one call of this specification.
retryCall == calls[1]

\* fetchWithRetry(url, options, maxRetries) up to its first await: the loop test and
\* the first fetch, or the throw when the loop has no pass.
RetryStart(maxRetries) ==
    LET c == [NoRetryCall EXCEPT !.maxRetries = maxRetries]
    IN /\ retryCall.pc = "idle"
       /\ calls' = IF 0 < maxRetries
                   THEN <<[c EXCEPT !.pc = "fetch", !.sent = 1]>>
                   ELSE <<throwAfterLoop(c)>>
       /\ ev' = [op |-> "fetchWithRetry", arg |-> "call",
                 effects |-> IF 0 < maxRetries THEN <<"fetch">> ELSE <<>>]
       /\ UNCHANGED <<DATA, INSIGHTS, state, SELECTED_ID, shown, boot>>

\* The fetch of the current attempt settles with `outcome`: the rest of that pass of
\* the loop, up to the return, the wait, or the throw after the loop.
RetryFetchSettles(outcome) ==
    LET c == [retryCall EXCEPT !.outcomes = Append(retryCall.outcomes, outcome),
                               !.lastError = IF outcome = "network_error"
                                             THEN "network_error"
                                             ELSE retryCall.lastError]
        step == retryStep(c.attempt, outcome, c.maxRetries)
    IN /\ retryCall.pc = "fetch"
       /\ calls' = CASE step = "return" ->
                           <<[c EXCEPT !.pc = "returned", !.result = outcome]>>
                     [] step = "wait" -> <<[c EXCEPT !.pc = "backoff"]>>
                     [] OTHER -> <<throwAfterLoop(c)>>
       /\ ev' = [op |-> "fetchWithRetry", arg |-> outcome,
                 effects |-> IF step = "wait" THEN <<"console.warn", "setTimeout">>
                             ELSE <<>>]
       /\ UNCHANGED <<DATA, INSIGHTS, state, SELECTED_ID, shown, boot>>

\* The wait is over: continue, so attempt++ and the loop test, then the next fetch or
\* the throw after the loop.
RetryBackoffElapsed ==
    LET c == retryCall
    IN /\ c.pc = "backoff"
       /\ calls' = IF loopContinues(c.attempt, c.maxRetries)
                   THEN <<[c EXCEPT !.pc = "fetch", !.attempt = c.attempt + 1,
                                    !.sent = c.sent + 1]>>
                   ELSE <<throwAfterLoop(c)>>
       /\ ev' = [op |-> "fetchWithRetry", arg |-> "timer",
                 effects |-> IF loopContinues(c.attempt, c.maxRetries)
                             THEN <<"fetch">> ELSE <<>>]
       /\ UNCHANGED <<DATA, INSIGHTS, state, SELECTED_ID, shown, boot>>

InitRetry ==
    /\ DATA = <<>>
    /\ INSIGHTS = <<InsightAll>>
    /\ state = InitialState
    /\ SELECTED_ID = NullId
    /\ calls = <<NoRetryCall>>
    /\ ev = [op |-> "", arg |-> "", effects |-> <<>>]
    /\ shown = NothingShown
    /\ boot = BootStart

NextRetry ==
    \/ \E maxRetries \in RetryCounts : RetryStart(maxRetries)
    \/ \E outcome \in Outcomes : RetryFetchSettles(outcome)
    \/ RetryBackoffElapsed

\* Every fetch settles and every timer fires: a step that can be taken is taken.
SpecRetry == InitRetry /\ [][NextRetry]_vars /\ WF_vars(NextRetry)

\* C23: a call sends at most maxRetries requests, so at most 3 for the callers' 3; an
\* ok response and a 4xx response other than 429 are the last outcome of their call,
\* which returns them in the step they arrive in with no request after it; and every
\* call ends, returning a response or throwing.
C23_BoundedAttemptsAndEnds ==
    /\ [](/\ retryCall.sent <= retryCall.maxRetries
          /\ retryCall.sent <= MaxRetries
          /\ \A i \in 1..Len(retryCall.outcomes) :
                retryCall.outcomes[i] \in {"ok", "4xx"}
                   => /\ i = Len(retryCall.outcomes)
                      /\ retryCall.pc = "returned"
                      /\ retryCall.result = retryCall.outcomes[i]
                      /\ retryCall.sent = i)
    /\ <>(retryCall.pc \in {"returned", "thrown"})

\* A call with maxRetries 3 got a 5xx, then a 4xx, and returned the 4xx after its
\* second request.
C23_Witness ==
    /\ retryCall.maxRetries = MaxRetries
    /\ retryCall.outcomes = <<"5xx", "4xx">>
    /\ retryCall.pc = "returned"
    /\ retryCall.result = "4xx"
    /\ retryCall.sent = 2


\* C28: a call that made an attempt throws only if the outcome of its last attempt was
\* a network error; when the last attempt got an HTTP response, 429 and 5xx included,
\* the call has returned that response once it has ended.
C28_ThrowsOnlyOnNetworkError ==
    LET c == retryCall
        last == c.outcomes[Len(c.outcomes)]
    IN (c.pc \in {"returned", "thrown"} /\ Len(c.outcomes) > 0)
          => IF last = "network_error" THEN c.pc = "thrown"
             ELSE c.pc = "returned" /\ c.result = last


\* C29: one places load sends at most 3 requests for the places, its background
\* refresh included, whatever the cache does and however the requests end.
C29_AtMostThreeRequests == boot.sent + boot.refresh.sent <= MaxRetries


\* C24: a response is applied only for the user's latest similarity action: the step
\* in which a call ends with findSimilar's success path is never the step of a call
\* the user has since superseded, by a later findSimilar or by leaving similarity
\* mode; so a late response neither replaces the later request's anchor nor
\* re-enters a mode the user left.
C24_OnlyLatestResponseApplied ==
    [][\A c \in 1..MaxCalls :
          (calls[c].pc = "fetch" /\ calls'[c].pc = "free"
              /\ ev'.op = "findSimilar:success")
             => ~calls[c].superseded]_vars


\* C25: outside similarity mode there is no anchor and no result; in similarity mode
\* the anchor is one record of the loaded dataset (whose records do not change after
\* the load, so it was there when its request was issued) and no result has the
\* anchor's id.
C25_SessionShape ==
    /\ ~state.similarMode => state.similarAnchor = <<>> /\ state.similarResults = <<>>
    /\ state.similarMode =>
          /\ Len(state.similarAnchor) = 1
          /\ state.similarAnchor[1] \in Range(DATA)
          /\ \A i \in 1..Len(state.similarResults) :
                state.similarResults[i].id # state.similarAnchor[1].id

\* A response for anchor a has just been applied, with place b among its results.
C25_Witness ==
    /\ ev.op = "findSimilar:success"
    /\ state.similarMode
    /\ state.similarAnchor[1].id = "a"
    /\ \E i \in 1..Len(state.similarResults) : state.similarResults[i].id = "b"


\* C26: after the reset-all action the FilterState is the initial one, similarity mode
\* off with no anchor and no result included, and the render at the end of the
\* action starts from the base dataset.
C26_ResetRestoresInitialState ==
    ev.op = "resetAll" => state = InitialState /\ shown.base = "DATA"

\* C27: in similarity mode a result whose sentiment label is the selected sentiment
\* passes the sentiment stage, and one whose price bucket is the selected price passes
\* the price stage: a result that also meets the text and tag conditions is in the
\* list the render built.
C27_SimilarResultsFilteredByLabel ==
    ("render" \in Range(ev.effects) /\ state.similarMode) =>
        \A r \in Range(state.similarResults) :
            (/\ state.sentiment = AR_ALL \/ r.sentiment_label_ar = state.sentiment
             /\ state.price = AR_ALL \/ r.price_bucket_ar = state.price
             /\ C1_TextOk(r)
             /\ state.tags \subseteq Range(r.tags))
                => r \in Range(shown.list)

-----------------------------------------------------------------------------
(* The results panel: initPanelCollapse and the listeners it registers *)

MIN == 22      \* collapsed height, in vh
MAX == 66      \* expanded height
START == 40    \* mobile initial peek height
DesktopHeight == 100    \* "--panel-h: 100%" as parseFloat reads it

\* Taps the user makes in one session.
MaxTaps == 4

\* How far a drag moves the handle, in vh (down is positive).
DragMoves == {-30, -10, 10, 30}

\* The closure of initPanelCollapse and what it shows.  height 0 stands for a
\* --panel-h that was never set; listeners counts the touchend listeners on the
\* button; pendingClick: a touchend nobody cancelled, its click still to come.  taps
\* and onlyTaps are bookkeeping: the taps so far, and whether the session so far was
\* taps on the mobile layout and nothing else.
PanelStart(desktop, peek) ==
    [collapsed |-> FALSE,
     height |-> IF desktop THEN 0 ELSE IF peek THEN START ELSE MAX,
     text |-> IF desktop THEN "" ELSE "down",
     desktop |-> desktop,
     dragging |-> FALSE,
     startH |-> MAX,
     listeners |-> 0,
     pendingClick |-> FALSE,
     taps |-> 0,
     onlyTaps |-> ~desktop]

\* parseFloat(getComputedStyle(root).getPropertyValue("--panel-h")) || MAX
currentHeight(p) == IF p.height = 0 THEN MAX ELSE p.height

\* The button's click listener: on the desktop layout it returns; otherwise it flips
\* collapsed, sets the height and the arrow, and registers one more touchend listener.
clickListener(p) ==
    IF p.desktop THEN p
    ELSE [p EXCEPT !.collapsed = ~p.collapsed,
                   !.height = IF ~p.collapsed THEN MIN ELSE MAX,
                   !.text = IF ~p.collapsed THEN "up" ELSE "down",
                   !.listeners = p.listeners + 1]

\* k touchend listeners run one after the other, each calling btn.click().
RECURSIVE clicks(_, _)
clicks(p, k) == IF k = 0 THEN p ELSE clicks(clickListener(p), k - 1)

PanelStep(p, op, arg) ==
    /\ boot' = p
    /\ ev' = [op |-> op, arg |-> arg, effects |-> <<>>]
    /\ UNCHANGED <<DATA, INSIGHTS, state, SELECTED_ID, calls, shown>>

\* The touchend of a tap on the button.  The listeners registered before the event
\* run, and each cancels the event; with none registered the browser goes on to
\* dispatch the click.
BtnTouchEnd ==
    /\ boot.taps < MaxTaps
    /\ ~boot.pendingClick
    /\ ~boot.dragging
    /\ IF boot.listeners = 0
       THEN PanelStep([boot EXCEPT !.pendingClick = TRUE], "collapseBtn:touchend", "0")
       ELSE PanelStep([clicks(boot, boot.listeners) EXCEPT !.taps = boot.taps + 1],
                      "collapseBtn:touchend", "click()")

\* The click the browser dispatches after a touchend that was not cancelled.
BtnClick ==
    /\ boot.pendingClick
    /\ PanelStep([clickListener(boot) EXCEPT !.pendingClick = FALSE,
                                             !.taps = boot.taps + 1],
                 "collapseBtn:click", "")

\* onDown on the handle, outside the button
HandleDown ==
    /\ ~boot.pendingClick
    /\ PanelStep(IF boot.desktop THEN boot
                 ELSE [boot EXCEPT !.dragging = TRUE, !.startH = currentHeight(boot)],
                 "panelHandle:down", "")

\* onMove: the pointer is dy vh below where the drag started
HandleMove(dy) ==
    /\ ~boot.pendingClick
    /\ PanelStep(IF ~boot.dragging \/ boot.desktop THEN boot
                 ELSE LET next == boot.startH - dy
                      IN [boot EXCEPT !.height = IF next < MIN THEN MIN
                                                 ELSE IF next > MAX THEN MAX ELSE next],
                 "window:move", "")

\* onUp: the panel snaps to MIN or MAX
HandleUp ==
    /\ ~boot.pendingClick
    /\ boot.dragging
    /\ PanelStep(IF boot.desktop THEN boot
                 ELSE LET snapToMin == 2 * currentHeight(boot) < MIN + MAX
                      IN [boot EXCEPT !.dragging = FALSE,
                                      !.height = IF snapToMin THEN MIN ELSE MAX,
                                      !.collapsed = snapToMin,
                                      !.text = IF snapToMin THEN "up" ELSE "down",
                                      !.onlyTaps = FALSE],
                 "window:up", "")

\* the window's resize listener; desktop is what isDesktop() gives from now on
Resize(desktop) ==
    /\ ~boot.pendingClick
    /\ PanelStep([boot EXCEPT !.desktop = desktop,
                              !.height = IF desktop THEN DesktopHeight
                                         ELSE IF boot.collapsed THEN MIN ELSE MAX,
                              !.onlyTaps = boot.onlyTaps /\ ~desktop],
                 "window:resize", "")

InitPanel ==
    /\ DATA = <<>>
    /\ INSIGHTS = <<InsightAll>>
    /\ state = InitialState
    /\ SELECTED_ID = NullId
    /\ calls = [c \in 1..MaxCalls |-> FreeCall]
    /\ ev = [op |-> "initPanelCollapse", arg |-> "", effects |-> <<>>]
    /\ shown = NothingShown
    /\ \E desktop \in BOOLEAN, peek \in BOOLEAN : boot = PanelStart(desktop, peek)

NextPanel ==
    \/ BtnTouchEnd
    \/ BtnClick
    \/ HandleDown
    \/ \E dy \in DragMoves : HandleMove(dy)
    \/ HandleUp
    \/ \E desktop \in BOOLEAN : Resize(desktop)

SpecPanel == InitPanel /\ [][NextPanel]_vars

\* C30: on the mobile layout, in a session of taps on the collapse button and nothing
\* else, every tap flips collapsed once: after n taps the panel is collapsed exactly
\* when n is odd.
C30_TapFlipsOnce ==
    (boot.onlyTaps /\ ~boot.pendingClick) => (boot.collapsed <=> boot.taps % 2 = 1)

====
